---- MODULE Spec2Model ----
(***************************************************************************)
(* Model of the sensor-acquisition and thermal-safety core of              *)
(* RepRapFirmware's Platform class (src/Platform.cpp): the 1ms tick state  *)
(* machine that multiplexes the ADC over the heater thermistors and the Z  *)
(* probe, the averaging filters it feeds, the overheat interlock, and the  *)
(* non-volatile configuration record.                                      *)
(*                                                                         *)
(* Numbers are scaled down: the ADC has adRangeReal+1 levels instead of    *)
(* 4096, there are HEATERS heaters and the filters average a few readings. *)
(* Floating point is modelled by exact rational arithmetic on integers.    *)
(***************************************************************************)
EXTENDS Integers, Sequences, FiniteSets, TLC

\* ------------------------------------------------- constants of Platform.h

\* The values below are compile-time constants declared in Platform.h; the
\* model uses small values in their place so that the filters fill and the
\* multiplexing cycle closes within a few ticks.

\* Number of heaters (thermistor channels) multiplexed by the tick driver.
HEATERS ==
    2

\* Capacity of a thermistor averaging filter.
numThermistorReadingsAveraged ==
    2

\* Capacity of each of the two Z probe averaging filters.
numZProbeReadingsAveraged ==
    2

\* Full-scale reading of the ADC as the tick driver sees it.
adRangeReal ==
    7

\* ------------------------------------------------------------------ bounds

\* How many events outside the tick driver (a change of an analog input, a
\* main-loop command, a reset) happen in one behaviour.
MaxEvents ==
    2

\* ------------------------------------------------------- derived constants

Heaters == 0 .. (HEATERS - 1)

\* A reading at or above this is a disconnected thermistor.
adDisconnectedReal == adRangeReal - 1

\* ADC channel of heater h, and of the Z probe (PinToAdcChannel is injective).
heaterAdcChannels == [h \in Heaters |-> h]

zProbeAdcChannel == HEATERS

AdcChannels == 0 .. HEATERS

\* Every heater has an output pin (HEAT_ON_PINS holds no negative entry).
heatOnPins == [h \in Heaters |-> h]

\* HEAT_ON is 0: the heater outputs are inverted, 255 on the pin is "off".
PwmFull == 255

Min(a, b) == IF a < b THEN a ELSE b

Max(a, b) == IF a > b THEN a ELSE b

\* --------------------------------------------------------- averaging filter

\* The sum is a uint32_t over uint16_t readings: with at most a few dozen
\* readings it stays far below 2^32, so it is not reduced modulo 2^32 here.
\* AveragingFilter::Init(val): cursor and fill count to zero, buffer pre-seeded.
FilterInit(val, n) ==
    [readings |-> [i \in 0 .. (n - 1) |-> val],
     index    |-> 0,
     sum      |-> val * n,
     count    |-> 0,
     size     |-> n]

\* Variant of ProcessReading that does not subtract the overwritten reading.
ProcessReadingNoSubtract(f, r) ==
    [f EXCEPT !.readings[f.index] = r,
              !.sum   = f.sum + r,
              !.index = (f.index + 1) % f.size,
              !.count = IF f.count < f.size THEN f.count + 1 ELSE f.size]

\* Variant of ProcessReading whose fill count runs one ahead.
ProcessReadingEarlyValid(f, r) ==
    [f EXCEPT !.readings[f.index] = r,
              !.sum   = f.sum - f.readings[f.index] + r,
              !.index = (f.index + 1) % f.size,
              !.count = IF f.count + 1 < f.size THEN f.count + 2 ELSE f.size]

\* Variant of ProcessReading that does not advance the cursor.
ProcessReadingStuckCursor(f, r) ==
    [f EXCEPT !.readings[f.index] = r,
              !.sum   = f.sum - f.readings[f.index] + r,
              !.count = IF f.count < f.size THEN f.count + 1 ELSE f.size]

\* AveragingFilter::ProcessReading(r)
ProcessReading(f, r) ==
    [f EXCEPT !.readings[f.index] = r,
              !.sum   = f.sum - f.readings[f.index] + r,
              !.index = (f.index + 1) % f.size,
              !.count = IF f.count < f.size THEN f.count + 1 ELSE f.size]

\* AveragingFilter::IsValid()
IsValid(f) == f.count = f.size

\* AveragingFilter::GetSum()
GetSum(f) == f.sum

RECURSIVE SumUpTo(_, _)
SumUpTo(g, k) == IF k < 0 THEN 0 ELSE g[k] + SumUpTo(g, k - 1)

\* Exact total of the values held in the buffer.
BufferTotal(f) == SumUpTo(f.readings, f.size - 1)

\* ------------------------------------------------------------ calibration

\* exp(-Beta / (BAD_HIGH_TEMPERATURE - ABS_ZERO)) as a fraction with
\* denominator 4, tabulated for the Beta values of the model.
ExpNegBetaOverheat(beta) == IF beta = 1 THEN 2 ELSE 1

\* Per-heater PidParameters: the thermistor calibration (series resistance,
\* R_inf, Beta), the ADC offsets in halves of an ADC count, and kP standing
\* for the PID gains.
DefaultPid ==
    [kP |-> 1, thermistorBeta |-> 1, thermistorInfR |-> 4, thermistorSeriesR |-> 6,
     adcLowOffset |-> 0, adcHighOffset |-> 0]

PidChoices ==
    { DefaultPid,
      [DefaultPid EXCEPT !.thermistorSeriesR = 14],
      [DefaultPid EXCEPT !.kP = 2] }

\* thermistorOverheatAdcValue of Platform::Init as the exact rational num/den:
\* (adRangeReal + 1) * Rov / (Rov + seriesR), Rov = R_inf * exp(-Beta / ...).
OverheatAdcNum(p) == (adRangeReal + 1) * p.thermistorInfR * ExpNegBetaOverheat(p.thermistorBeta)

OverheatAdcDen(p) == p.thermistorInfR * ExpNegBetaOverheat(p.thermistorBeta) + 4 * p.thermistorSeriesR

\* (uint32_t) (thermistorOverheatAdcValue + 0.9) * numThermistorReadingsAveraged
OverheatSum(p) ==
    ((10 * OverheatAdcNum(p) + 9 * OverheatAdcDen(p)) \div (10 * OverheatAdcDen(p)))
        * numThermistorReadingsAveraged

\* ------------------------------------------------- non-volatile data record

\* Number of axes with a probe-applicability flag.
AXES ==
    3

\* Network addresses are arrays of four bytes.
IP_ADDRESS == << 192, 168, 1, 10 >>

NET_MASK == << 255, 255, 255, 0 >>

GATE_WAY == << 192, 168, 1, 1 >>

MAC_ADDRESS == << 190, 239, 222, 173 >>

Z_PROBE_AXES == [axis \in 0 .. (AXES - 1) |-> axis # 1]

\* ZProbeParameters::Init(height): the default trigger value and the given
\* stop height (in tenths of a millimetre).
ZProbeParametersInit(height) == [adcValue |-> 4, height |-> height]

Z_PROBE_STOP_HEIGHT == 7

\* The record as Platform::Init sets it up when the magic value mismatches.
DefaultNvData ==
    [magic       |-> "magicValue",
     compatibility |-> "me",
     ipAddress   |-> IP_ADDRESS,
     netMask     |-> NET_MASK,
     gateWay     |-> GATE_WAY,
     macAddress  |-> MAC_ADDRESS,
     zProbeType  |-> 0,
     zProbeAxes  |-> Z_PROBE_AXES,
     switchZProbeParameters    |-> ZProbeParametersInit(0),
     irZProbeParameters        |-> ZProbeParametersInit(Z_PROBE_STOP_HEIGHT),
     alternateZProbeParameters |-> ZProbeParametersInit(Z_PROBE_STOP_HEIGHT),
     pidParams   |-> [h \in Heaters |-> DefaultPid],
     resetReason |-> {}]

\* Flash that has never been written: no field is meaningful.
ErasedFlash ==
    [magic       |-> "erased",
     compatibility |-> "erased",
     ipAddress   |-> << 255, 255, 255, 255 >>,
     netMask     |-> << 255, 255, 255, 255 >>,
     gateWay     |-> << 255, 255, 255, 255 >>,
     macAddress  |-> << 255, 255, 255, 255 >>,
     zProbeType  |-> 3,
     zProbeAxes  |-> [axis \in 0 .. (AXES - 1) |-> TRUE],
     switchZProbeParameters    |-> [adcValue |-> 255, height |-> 255],
     irZProbeParameters        |-> [adcValue |-> 255, height |-> 255],
     alternateZProbeParameters |-> [adcValue |-> 255, height |-> 255],
     pidParams   |-> [h \in Heaters |-> [DefaultPid EXCEPT !.kP = 2]],
     resetReason |-> {"erased"}]

\* What the flash may hold at power-up.
InitialFlash ==
    { ErasedFlash,
      [DefaultNvData EXCEPT !.zProbeType = 2,
                            !.pidParams[0] = [DefaultPid EXCEPT !.thermistorSeriesR = 14]] }

VARIABLES
    active,                 \* Platform::active, enables the tick interrupt
    tickState,              \* Platform::tickState
    currentHeater,          \* Platform::currentHeater
    thermistorFilters,      \* Platform::thermistorFilters[HEATERS]
    zProbeOnFilter,         \* Platform::zProbeOnFilter
    zProbeOffFilter,        \* Platform::zProbeOffFilter
    thermistorOverheatSums, \* Platform::thermistorOverheatSums[HEATERS]
    nvData,                 \* Platform::nvData, the in-memory record
    flash,                  \* the block in DueFlashStorage at nvAddress
    errorCodeBits,          \* Platform::errorCodeBits, as a set of bits
    heatPinValue,           \* value last written to each heater output pin
    zProbeModHigh,          \* level of the Z probe modulation pin
    adcEnabled,             \* ADC channels currently enabled
    adcData,                \* last conversion result of each ADC channel
    analogIn,               \* analog level present on each ADC channel
    nvWriteCtx,             \* context in which WriteNvData last ran
    nvWrites,               \* WriteNvData calls made by the last operation
    lastOp,                 \* the operation that produced this state
    faultAge,               \* per heater: ticks its input has been in fault
    tripped,                \* per heater: interlock fired during this fault
    events,                 \* number of events outside the tick driver so far
    flt,                    \* an AveragingFilter exercised on its own
    fltLog,                 \* the readings flt has processed since its Init
    timer,                  \* timer channel TC1/0 and what SetInterrupt last did
    convModHigh,            \* modulation level when the probe conversion was last started
    tickLog,                \* what each of the last TickWindow ticks fed
    adcStarted,             \* channel of the last StartAdcConversion, or -1
    adcRead,                \* channel the last tick passed to GetAdcReading, or -1
    heaterLog,              \* heater each of the last PassLen ticks processed, or -1
    fedSince,               \* samples fed to each probe filter since its Init began
    initZProbe,             \* where the main loop is inside InitZProbe
    files,                  \* the FileStore slots
    fatOpen,                \* per slot: the underlying file is open
    fileHist,               \* the last FileStore call and what it reported
    lineIn,                 \* the input side of the Line object
    usbIn,                  \* bytes the interface holds for iface.read()
    lineInHist,             \* the last call on the input side and its result
    line,                   \* Platform::line, the Line object of the USB port
    usb,                    \* the Stream behind line: room it has, bytes it was handed
    lineHist                \* what Line::Write has done with the current output line

platformVars ==
    << active, tickState, currentHeater, thermistorFilters, zProbeOnFilter,
       zProbeOffFilter, thermistorOverheatSums, nvData, flash, errorCodeBits,
       heatPinValue, zProbeModHigh, adcEnabled, adcData, analogIn, nvWriteCtx,
       nvWrites, lastOp, faultAge, tripped, events >>

filterVars == << flt, fltLog >>

timerVars == << timer >>

histVars == << convModHigh, tickLog, adcStarted, adcRead, heaterLog, fedSince >>

loopVars == << initZProbe >>

fileVars == << files, fatOpen, fileHist >>

lineInVars == << lineIn, usbIn, lineInHist >>

lineVars == << line, usb, lineHist >>

vars == << platformVars, filterVars, timerVars, histVars, lineVars, loopVars, fileVars,
          lineInVars >>

\* --------------------------------------------------------- step timer

\* Periods are in tenths of a microsecond, so that the truncation of
\* (long)(TIME_TO_REPRAP * s) to whole microseconds is modelled.
STANDBY_INTERRUPT_RATE ==
    2000

\* The timer channel before SetInterrupt has been called: stopped.
TimerOff ==
    [called |-> FALSE, s |-> 0, error |-> FALSE, ra |-> 0, rc |-> 0,
     started |-> FALSE, irq |-> FALSE]

\* rc of Platform::SetInterrupt for a period of s tenths of a microsecond:
\* (uint32_t)((((long)(TIME_TO_REPRAP * s)) * 84l) / 128l).  The periods of
\* the model are far from overflowing the long.
TimerRc(s) ==
    LET us == IF s >= 0 THEN s \div 10 ELSE 0 - ((0 - s) \div 10)
    IN  IF us >= 0 THEN (us * 84) \div 128 ELSE 0 - (((0 - us) * 84) \div 128)

\* Variant of SetInterruptResult that reports the error but keeps the period.
SetInterruptResultKeepsPeriod(s) ==
    [called |-> TRUE, s |-> s, error |-> (s <= 0),
     ra |-> TimerRc(s) \div 2, rc |-> TimerRc(s), started |-> TRUE, irq |-> TRUE]

\* Platform::SetInterrupt(s): the error message, the registers RA and RC of
\* the timer channel, TC_Start and NVIC_EnableIRQ.
SetInterruptResult(s) ==
    LET s2 == IF s <= 0 THEN STANDBY_INTERRUPT_RATE ELSE s
    IN  [called |-> TRUE, s |-> s, error |-> (s <= 0),
         ra |-> TimerRc(s2) \div 2, rc |-> TimerRc(s2), started |-> TRUE, irq |-> TRUE]

\* lastOp: the operation, the heater it acted on (or -1), whether it took the
\* interlock's fault branch, and whether that heater's output was on before.
Op(name, h, forced) ==
    [op |-> name, heater |-> h, forced |-> forced,
     wasOn |-> h \in Heaters /\ heatPinValue[h] # PwmFull]

\* Level of the thermistor inputs at power-up (room temperature).
RoomLevel == adRangeReal - 3

\* The ADC value at which the default calibration puts the overheat limit.
DefaultOverheatAdc == OverheatSum(DefaultPid) \div numThermistorReadingsAveraged

\* Levels a thermistor input takes: over-temperature, exactly at the limit,
\* room temperature, just below the disconnect level, and disconnected.
ThermistorLevels ==
    { DefaultOverheatAdc - 1, DefaultOverheatAdc, RoomLevel, adDisconnectedReal - 1,
      adDisconnectedReal }

\* Levels the Z probe input takes.
ProbeLevels == { 0, adRangeReal }

AnalogLevels(c) == IF c = zProbeAdcChannel THEN ProbeLevels ELSE ThermistorLevels

\* History counter limit: one more than the longest detection time.
FaultAgeCap == 2 * HEATERS * numThermistorReadingsAveraged + 2

\* ----------------------------------------------------------------- helpers

\* Variant of WriteNvData that leaves the heater calibrations in flash alone.
WriteNvDataSkipsPid(nv) == [nv EXCEPT !.pidParams = flash.pidParams]

\* Platform::WriteNvData: the whole record goes to flash.
WriteNvData(nv) == nv

\* Platform::SetHeater(heater, power) on the pin values; power is 0 or 1.
SetHeater(pins, heater, power) ==
    IF heatOnPins[heater] < 0
    THEN pins
    ELSE [pins EXCEPT ![heater] = PwmFull - PwmFull * Min(1, Max(0, power))]

\* The heater output is at zero power.
HeaterOff(pins, h) == pins[h] = PwmFull

\* Platform::GetAdcReading(chan): the channel's last result; chan is disabled.
GetAdcReading(chan) == adcData[chan]

\* Platform::StartAdcConversion(chan) after GetAdcReading(prev): chan is
\* enabled and every enabled channel converts the level now on its input.
AdcEnabledAfter(prev, chan) == (adcEnabled \ prev) \cup {chan}

AdcDataAfter(prev, chan) ==
    [c \in AdcChannels |-> IF c \in AdcEnabledAfter(prev, chan) THEN analogIn[c] ELSE adcData[c]]

\* Variant of InterlockTrips with <= on the overheat side.
InterlockTripsInclusive(sum, h) ==
    sum <= thermistorOverheatSums[h] \/ sum >= adDisconnectedReal * numThermistorReadingsAveraged

\* Variant of InterlockTrips without the disconnect comparison.
InterlockTripsOverheatOnly(sum, h) ==
    sum < thermistorOverheatSums[h]

\* The comparison of Platform::Tick on a valid thermistor filter sum.
InterlockTrips(sum, h) ==
    sum < thermistorOverheatSums[h] \/ sum >= adDisconnectedReal * numThermistorReadingsAveraged

\* Platform::Tick, case 2: the level (LOW) that turns the IR emitter of a
\* modulated probe off; zProbeModHigh is TRUE when the pin is HIGH.
ModulationIdle == FALSE

\* Platform::Tick, cases 4 and 0: the level (HIGH) that turns the emitter on.
ModulationActive == TRUE

\* Variant of InitZProbeModHigh that leaves the emitter of an IR probe off.
InitZProbeModHighIdle(type, old) ==
    IF type \in {1, 2} THEN ModulationIdle
    ELSE IF type = 3 THEN FALSE
    ELSE old

\* Platform::InitZProbe: the level it leaves on the modulation pin.
InitZProbeModHigh(type, old) ==
    IF type \in {1, 2} THEN TRUE
    ELSE IF type = 3 THEN FALSE
    ELSE old

\* Which kind of reading a level on heater h's input is for the interlock.
LevelKind(v, h) ==
    IF v >= adDisconnectedReal THEN "open"
    ELSE IF v * numThermistorReadingsAveraged < thermistorOverheatSums[h] THEN "hot"
    ELSE "ok"

\* ------------------------------------------------------------------- Line

\* Size of Line::outBuffer.
lineOutBufSize == 4

\* Most bytes the interface takes before the host has read any.
MaxRoom == 1

\* Line::Init: the output side of the Line object.
LineInit ==
    [outBuffer |-> [i \in 0 .. lineOutBufSize - 1 |-> "none"],
     outputGetIndex |-> 0, outputNumChars |-> 0, ignoringOutputLine |-> FALSE,
     inWrite |-> 0, outputColumn |-> 0]

\* The line, its interface and the history of the current output line when
\* nothing has been written yet.
LineIdle ==
    /\ line = LineInit
    /\ usb = [room |-> MaxRoom, sent |-> << >>]
    /\ lineHist = [writes |-> 0, accepted |-> 0, discarded |-> FALSE, marked |-> FALSE,
                   blockSince |-> FALSE, outcome |-> "none", b |-> "none", block |-> FALSE,
                   free |-> lineOutBufSize, pending |-> "none", waited |-> FALSE]

\* Length of the input buffer of a Line.
lineInBufsize == 2

\* What a call on the input side leaves in lineInHist: the call, the value
\* Read returned (-1 for the others) and the bytes Spin took from the
\* interface.
LineInCall(n, op, result, taken) ==
    [ops |-> n, op |-> op, result |-> result, taken |-> taken]

\* Line::Init: the input side of the Line object.
LineInInit ==
    [inBuffer |-> [i \in 0 .. lineInBufsize - 1 |-> "none"],
     inputGetIndex |-> 0, inputNumChars |-> 0]

\* The input side when nothing has arrived yet.
LineInIdle ==
    /\ lineIn = LineInInit
    /\ usbIn = << >>
    /\ lineInHist = LineInCall(0, "none", -1, 0)

\* ------------------------------------------------------------ tick history

\* Length of the window of ticks kept in tickLog.
TickWindow == 4

\* tickLog after a tick that fed kind: the last TickWindow entries.
TickLogAfter(kind) ==
    IF Len(tickLog) < TickWindow THEN Append(tickLog, kind)
    ELSE Append(Tail(tickLog), kind)

\* No sample fed to either probe filter yet.
FedNone == [on |-> 0, off |-> 0]

\* fedSince after one more sample went to probe filter k, counted up to the
\* filter length.
FedAfter(k) ==
    [fedSince EXCEPT ![k] = IF @ < numZProbeReadingsAveraged THEN @ + 1 ELSE @]

\* Number of FileStore slots.
MAX_FILES == 2

\* Length of a FileStore buffer.
FILE_BUF_LEN == 3

Slots == 0 .. (MAX_FILES - 1)

\* FileStore::Init
FileStoreInit ==
    [bufferPointer   |-> 0,
     inUse           |-> FALSE,
     writing         |-> FALSE,
     lastBufferEntry |-> 0,
     openCount       |-> 0]

\* What a FileStore call leaves in fileHist: the call, its slot, its return
\* value, whether it reported an error, whether it called f_close, and
\* whether it stored outside buf.
FileCall(n, op, slot, ok, error, closed, overrun) ==
    [ops |-> n, op |-> op, slot |-> slot, ok |-> ok, error |-> error,
     closed |-> closed, overrun |-> overrun]

\* Platform::Init has run FileStore::Init on every slot.
FilesInit ==
    /\ files = [i \in Slots |-> FileStoreInit]
    /\ fatOpen = [i \in Slots |-> FALSE]
    /\ fileHist = FileCall(0, "none", -1, TRUE, FALSE, FALSE, FALSE)

\* The main loop is not inside InitZProbe.
LoopIdle == initZProbe = [at |-> "idle", step |-> 0]

\* Number of ticks in one pass over the heaters: a heater tick and a probe
\* tick for each heater.
PassLen == 2 * HEATERS

\* heaterLog after a tick that processed heater h (-1: none).
HeaterLogAfter(h) ==
    IF Len(heaterLog) < PassLen THEN Append(heaterLog, h)
    ELSE Append(Tail(heaterLog), h)

HistInit ==
    /\ convModHigh = FALSE
    /\ tickLog = << >>
    /\ adcStarted = -1
    /\ adcRead = -1
    /\ heaterLog = << >>
    /\ fedSince = FedNone

\* ---------------------------------------------------------------- initial

\* The state Platform::Platform() leaves, before Platform::Init has run.
Init ==
    /\ active = FALSE
    /\ tickState = 0
    /\ currentHeater = 0
    /\ thermistorFilters = [h \in Heaters |-> FilterInit(0, numThermistorReadingsAveraged)]
    /\ zProbeOnFilter = FilterInit(0, numZProbeReadingsAveraged)
    /\ zProbeOffFilter = FilterInit(0, numZProbeReadingsAveraged)
    /\ thermistorOverheatSums = [h \in Heaters |-> 0]
    /\ nvData = ErasedFlash
    /\ flash \in InitialFlash
    /\ errorCodeBits = {}
    /\ heatPinValue = [h \in Heaters |-> PwmFull]
    /\ zProbeModHigh = FALSE
    /\ adcEnabled = {}
    /\ adcData = [c \in AdcChannels |-> 0]
    /\ analogIn = [c \in AdcChannels |-> IF c = zProbeAdcChannel THEN 0 ELSE RoomLevel]
    /\ nvWriteCtx = "none"
    /\ nvWrites = 0
    /\ lastOp = Op("Platform", -1, FALSE)
    /\ faultAge = [h \in Heaters |-> 0]
    /\ tripped = [h \in Heaters |-> FALSE]
    /\ events = 0
    /\ flt = FilterInit(0, 1)
    /\ fltLog = << >>
    /\ timer = TimerOff
    /\ HistInit
    /\ LineIdle
    /\ LoopIdle
    /\ FilesInit
    /\ LineInIdle

\* ------------------------------------------------------------ Platform::Init

\* Variant of LoadedNvData whose default branch does not reset the probe type.
LoadedNvDataKeepsProbeType ==
    IF flash.magic # "magicValue"
    THEN [DefaultNvData EXCEPT !.zProbeType = flash.zProbeType]
    ELSE flash

\* Variant of LoadedNvData that clears the reset reason of a valid record.
LoadedNvDataClearsReason ==
    IF flash.magic # "magicValue" THEN DefaultNvData ELSE [flash EXCEPT !.resetReason = {}]

\* nvData after the load at the head of Platform::Init.
LoadedNvData == IF flash.magic # "magicValue" THEN DefaultNvData ELSE flash

PlatformInit ==
    /\ ~active
    /\ UNCHANGED << filterVars, lineVars, loopVars, fileVars, lineInVars >>
    /\ timer' = SetInterruptResult(STANDBY_INTERRUPT_RATE)
    /\ convModHigh' = FALSE
    /\ tickLog' = << >>
    /\ adcStarted' = -1
    /\ adcRead' = -1
    /\ heaterLog' = << >>
    /\ fedSince' = FedNone
    /\ nvData' = LoadedNvData
    /\ IF flash.magic # "magicValue"
       THEN flash' = WriteNvData(LoadedNvData) /\ nvWriteCtx' = "main" /\ nvWrites' = 1
       ELSE UNCHANGED << flash, nvWriteCtx >> /\ nvWrites' = 0
    /\ zProbeOnFilter' = FilterInit(0, numZProbeReadingsAveraged)
    /\ zProbeOffFilter' = FilterInit(0, numZProbeReadingsAveraged)
    /\ zProbeModHigh' = InitZProbeModHigh(LoadedNvData.zProbeType, zProbeModHigh)
    /\ heatPinValue' = [h \in Heaters |-> IF heatOnPins[h] >= 0 THEN PwmFull ELSE heatPinValue[h]]
    /\ thermistorFilters' =
           [h \in Heaters |-> FilterInit(analogIn[heaterAdcChannels[h]], numThermistorReadingsAveraged)]
    /\ thermistorOverheatSums' = [h \in Heaters |-> OverheatSum(LoadedNvData.pidParams[h])]
    /\ tickState' = 0
    /\ currentHeater' = 0
    /\ active' = TRUE
    /\ lastOp' = Op("Init", -1, FALSE)
    /\ faultAge' = [h \in Heaters |-> 0]
    /\ tripped' = [h \in Heaters |-> FALSE]
    /\ UNCHANGED << errorCodeBits, adcEnabled, adcData, analogIn, events >>

\* ------------------------------------------------------------ Platform::Tick

\* Variant of TickHeaterChannel that reads the channel of the next heater.
TickHeaterChannelOfNext ==
    heaterAdcChannels[IF currentHeater + 1 = HEATERS THEN 0 ELSE currentHeater + 1]

\* Cases 1 and 3: the channel passed to GetAdcReading.
TickHeaterChannel == heaterAdcChannels[currentHeater]

\* Cases 1 and 3: the filter of the current heater after the new reading.
TickHeaterFilter ==
    ProcessReading(thermistorFilters[currentHeater], GetAdcReading(TickHeaterChannel))

\* Cases 1 and 3: whether the tick takes the over-temperature branch.
TickHeaterBad ==
    IsValid(TickHeaterFilter) /\ InterlockTrips(GetSum(TickHeaterFilter), currentHeater)

\* Variant of TickErrorCodeBits that clears the flag on a good reading.
TickErrorCodeBitsAutoClear(bad) ==
    IF bad THEN errorCodeBits \cup {"ErrorBadTemp"} ELSE errorCodeBits \ {"ErrorBadTemp"}

\* Cases 1 and 3: errorCodeBits |= ErrorBadTemp in the fault branch.
TickErrorCodeBits(bad) ==
    IF bad THEN errorCodeBits \cup {"ErrorBadTemp"} ELSE errorCodeBits

\* Variant of TickHeatPins that switches off the heater after the current one.
TickHeatPinsWrongHeater(bad) ==
    IF bad THEN SetHeater(heatPinValue, (currentHeater + 1) % HEATERS, 0) ELSE heatPinValue

\* Cases 1 and 3: SetHeater(currentHeater, 0.0) in the fault branch.
TickHeatPins(bad) ==
    IF bad THEN SetHeater(heatPinValue, currentHeater, 0) ELSE heatPinValue

\* Cases 1 and 3: ++currentHeater, wrapping at HEATERS.
\* Variant of NextHeater that wraps one heater early.
NextHeaterWrapsEarly == IF currentHeater + 2 >= HEATERS THEN 0 ELSE currentHeater + 1

NextHeater == IF currentHeater + 1 = HEATERS THEN 0 ELSE currentHeater + 1

\* History: age of the fault on each heater's input and whether the
\* interlock has fired for it; h is the heater this tick processed (or -1).
TickHistory(h, forced) ==
    /\ faultAge' = [x \in Heaters |->
                      IF LevelKind(analogIn[heaterAdcChannels[x]], x) = "ok"
                      THEN 0 ELSE Min(faultAge[x] + 1, FaultAgeCap)]
    /\ tripped' = [x \in Heaters |->
                      IF LevelKind(analogIn[heaterAdcChannels[x]], x) = "ok"
                      THEN FALSE ELSE tripped[x] \/ (x = h /\ forced)]

\* Variant of TickStateAfter in which case 2 goes straight to state 4.
TickStateAfterSkipsThree(ts) == IF ts \in {1, 3} THEN ts + 1 ELSE IF ts = 2 THEN 4 ELSE 1

\* Variant of TickStateAfter in which case 4 falls back to state 0.
TickStateAfterToZero(ts) == IF ts \in 1 .. 3 THEN ts + 1 ELSE 0

\* tickState after a tick in state ts: ++tickState in cases 1, 2 and 3,
\* tickState = 1 in case 4 and in the default case.
TickStateAfter(ts) == IF ts \in 1 .. 3 THEN ts + 1 ELSE 1

\* RepRap::Tick -> Platform::Tick, the 1ms tick interrupt.
Tick ==
    /\ active
    /\ UNCHANGED << filterVars, timerVars, lineVars, loopVars, fileVars, lineInVars >>
    /\ \/ /\ tickState \in {1, 3}
          /\ thermistorFilters' = [thermistorFilters EXCEPT ![currentHeater] = TickHeaterFilter]
          /\ adcEnabled' = AdcEnabledAfter({TickHeaterChannel}, zProbeAdcChannel)
          /\ adcData' = AdcDataAfter({TickHeaterChannel}, zProbeAdcChannel)
          /\ adcRead' = TickHeaterChannel
          /\ adcStarted' = zProbeAdcChannel
          /\ heatPinValue' = TickHeatPins(TickHeaterBad)
          /\ errorCodeBits' = TickErrorCodeBits(TickHeaterBad)
          /\ currentHeater' = NextHeater
          /\ tickState' = TickStateAfter(tickState)
          /\ lastOp' = Op("Tick", currentHeater, TickHeaterBad)
          /\ TickHistory(currentHeater, TickHeaterBad)
          /\ convModHigh' = zProbeModHigh
          /\ tickLog' = TickLogAfter("heater")
          /\ UNCHANGED fedSince
          /\ heaterLog' = HeaterLogAfter(currentHeater)
          /\ UNCHANGED << zProbeOnFilter, zProbeOffFilter, zProbeModHigh >>
       \/ /\ tickState = 2
          /\ zProbeOnFilter' = ProcessReading(zProbeOnFilter, GetAdcReading(zProbeAdcChannel))
          /\ adcEnabled' = AdcEnabledAfter({zProbeAdcChannel}, heaterAdcChannels[currentHeater])
          /\ adcData' = AdcDataAfter({zProbeAdcChannel}, heaterAdcChannels[currentHeater])
          /\ adcRead' = zProbeAdcChannel
          /\ adcStarted' = heaterAdcChannels[currentHeater]
          /\ zProbeModHigh' = IF nvData.zProbeType = 2 THEN ModulationIdle ELSE zProbeModHigh
          /\ tickState' = TickStateAfter(tickState)
          /\ lastOp' = Op("Tick", -1, FALSE)
          /\ TickHistory(-1, FALSE)
          /\ tickLog' = TickLogAfter("on")
          /\ fedSince' = FedAfter("on")
          /\ heaterLog' = HeaterLogAfter(-1)
          /\ UNCHANGED convModHigh
          /\ UNCHANGED << thermistorFilters, zProbeOffFilter, heatPinValue, errorCodeBits,
                          currentHeater >>
       \/ /\ tickState = 4
          /\ zProbeOffFilter' = ProcessReading(zProbeOffFilter, GetAdcReading(zProbeAdcChannel))
          /\ adcEnabled' = AdcEnabledAfter({zProbeAdcChannel}, heaterAdcChannels[currentHeater])
          /\ adcData' = AdcDataAfter({zProbeAdcChannel}, heaterAdcChannels[currentHeater])
          /\ adcRead' = zProbeAdcChannel
          /\ adcStarted' = heaterAdcChannels[currentHeater]
          /\ zProbeModHigh' = IF nvData.zProbeType = 2 THEN ModulationActive ELSE zProbeModHigh
          /\ tickState' = TickStateAfter(tickState)
          /\ lastOp' = Op("Tick", -1, FALSE)
          /\ TickHistory(-1, FALSE)
          /\ tickLog' = TickLogAfter("off")
          /\ fedSince' = FedAfter("off")
          /\ heaterLog' = HeaterLogAfter(-1)
          /\ UNCHANGED convModHigh
          /\ UNCHANGED << thermistorFilters, zProbeOnFilter, heatPinValue, errorCodeBits,
                          currentHeater >>
       \/ /\ tickState \notin 1 .. 4
          /\ adcEnabled' = AdcEnabledAfter({}, heaterAdcChannels[currentHeater])
          /\ adcData' = AdcDataAfter({}, heaterAdcChannels[currentHeater])
          /\ adcRead' = -1
          /\ adcStarted' = heaterAdcChannels[currentHeater]
          /\ zProbeModHigh' = IF nvData.zProbeType = 2 THEN ModulationActive ELSE zProbeModHigh
          /\ tickState' = TickStateAfter(tickState)
          /\ lastOp' = Op("Tick", -1, FALSE)
          /\ TickHistory(-1, FALSE)
          /\ tickLog' = TickLogAfter("none")
          /\ UNCHANGED fedSince
          /\ heaterLog' = HeaterLogAfter(-1)
          /\ UNCHANGED convModHigh
          /\ UNCHANGED << thermistorFilters, zProbeOnFilter, zProbeOffFilter, heatPinValue,
                          errorCodeBits, currentHeater >>
    /\ nvWrites' = 0
    /\ UNCHANGED << active, thermistorOverheatSums, nvData, flash, analogIn, nvWriteCtx,
                    events >>

\* ------------------------------------------------------------- environment

\* The level on an analog input changes (temperature, wiring, bed distance).
AnalogChange(c, v) ==
    /\ active
    /\ events < MaxEvents
    /\ v # analogIn[c]
    /\ UNCHANGED << filterVars, timerVars, histVars, lineVars, loopVars,
                    fileVars, lineInVars >>
    /\ analogIn' = [analogIn EXCEPT ![c] = v]
    /\ events' = events + 1
    /\ IF c \in Heaters /\ LevelKind(v, c) # LevelKind(analogIn[c], c)
       THEN /\ faultAge' = [faultAge EXCEPT ![c] = 0]
            /\ tripped' = [tripped EXCEPT ![c] = FALSE]
       ELSE UNCHANGED << faultAge, tripped >>
    /\ lastOp' = Op("AnalogChange", -1, FALSE)
    /\ nvWrites' = 0
    /\ UNCHANGED << active, tickState, currentHeater, thermistorFilters, zProbeOnFilter,
                    zProbeOffFilter, thermistorOverheatSums, nvData, flash, errorCodeBits,
                    heatPinValue, zProbeModHigh, adcEnabled, adcData, nvWriteCtx >>

\* ------------------------------------------------------ main-loop operations

\* The heater control loop sets a heater's power: Platform::SetHeater.
SetHeaterMain(h, power) ==
    /\ active
    /\ UNCHANGED << filterVars, timerVars, histVars, lineVars, loopVars,
                    fileVars, lineInVars >>
    /\ events < MaxEvents
    /\ events' = events + 1
    /\ heatPinValue' = SetHeater(heatPinValue, h, power)
    /\ lastOp' = Op("SetHeater", h, FALSE)
    /\ nvWrites' = 0
    /\ UNCHANGED << active, tickState, currentHeater, thermistorFilters, zProbeOnFilter,
                    zProbeOffFilter, thermistorOverheatSums, nvData, flash, errorCodeBits,
                    zProbeModHigh, adcEnabled, adcData, analogIn, nvWriteCtx, faultAge,
                    tripped >>

\* Platform::SetPidParameters(heater, params)
SetPidParameters(heater, params) ==
    /\ active
    /\ UNCHANGED << filterVars, timerVars, histVars, lineVars, loopVars,
                    fileVars, lineInVars >>
    /\ events < MaxEvents
    /\ events' = events + 1
    /\ IF heater < HEATERS /\ params # nvData.pidParams[heater]
       THEN /\ nvData' = [nvData EXCEPT !.pidParams[heater] = params]
            /\ flash' = WriteNvData(nvData')
            /\ nvWriteCtx' = "main"
            /\ nvWrites' = 1
       ELSE UNCHANGED << nvData, flash, nvWriteCtx >> /\ nvWrites' = 0
    /\ lastOp' = Op("SetPidParameters", heater, FALSE)
    /\ UNCHANGED << active, tickState, currentHeater, thermistorFilters, zProbeOnFilter,
                    zProbeOffFilter, thermistorOverheatSums, errorCodeBits, heatPinValue,
                    zProbeModHigh, adcEnabled, adcData, analogIn, faultAge, tripped >>

\* Variant of SetZProbeType that leaves out the InitZProbe call.
SetZProbeTypeNoInit(pt) ==
    /\ active
    /\ UNCHANGED << filterVars, timerVars, histVars, lineVars, loopVars,
                    fileVars, lineInVars >>
    /\ events < MaxEvents
    /\ events' = events + 1
    /\ LET newZProbeType == IF pt >= 0 /\ pt <= 3 THEN pt ELSE 0
       IN  IF newZProbeType # nvData.zProbeType
           THEN /\ nvData' = [nvData EXCEPT !.zProbeType = newZProbeType]
                /\ flash' = WriteNvData(nvData')
                /\ nvWriteCtx' = "main"
                /\ nvWrites' = 1
           ELSE UNCHANGED << nvData, flash, nvWriteCtx >> /\ nvWrites' = 0
    /\ lastOp' = Op("SetZProbeType", -1, FALSE)
    /\ UNCHANGED << active, tickState, currentHeater, thermistorFilters, zProbeOnFilter,
                    zProbeOffFilter, zProbeModHigh, thermistorOverheatSums, errorCodeBits,
                    heatPinValue, adcEnabled, adcData, analogIn, faultAge, tripped >>

\* Platform::SetZProbeType(pt), including the InitZProbe call at its end.
SetZProbeType(pt) ==
    /\ active
    /\ UNCHANGED << filterVars, timerVars, lineVars, loopVars, fileVars, lineInVars >>
    /\ UNCHANGED << convModHigh, tickLog, adcStarted, adcRead, heaterLog >>
    /\ fedSince' = FedNone
    /\ events < MaxEvents
    /\ events' = events + 1
    /\ LET newZProbeType == IF pt >= 0 /\ pt <= 3 THEN pt ELSE 0
       IN  /\ IF newZProbeType # nvData.zProbeType
              THEN /\ nvData' = [nvData EXCEPT !.zProbeType = newZProbeType]
                   /\ flash' = WriteNvData(nvData')
                   /\ nvWriteCtx' = "main"
                   /\ nvWrites' = 1
              ELSE UNCHANGED << nvData, flash, nvWriteCtx >> /\ nvWrites' = 0
           /\ zProbeOnFilter' = FilterInit(0, numZProbeReadingsAveraged)
           /\ zProbeOffFilter' = FilterInit(0, numZProbeReadingsAveraged)
           /\ zProbeModHigh' = InitZProbeModHigh(newZProbeType, zProbeModHigh)
    /\ lastOp' = Op("SetZProbeType", -1, FALSE)
    /\ UNCHANGED << active, tickState, currentHeater, thermistorFilters,
                    thermistorOverheatSums, errorCodeBits, heatPinValue, adcEnabled,
                    adcData, analogIn, faultAge, tripped >>

\* ------------------------------------------------------------ software reset

\* Platform::SoftwareReset(reason) called in context ctx; flags are the bits
\* it adds for line->inWrite, aux->inWrite and InLwip.  The processor then
\* restarts, which leaves the state of Platform::Platform() and the flash.
SoftwareReset(reason, flags, ctx) ==
    /\ active
    /\ UNCHANGED << filterVars, lineVars, loopVars, fileVars, lineInVars >>
    /\ timer' = TimerOff
    /\ convModHigh' = FALSE
    /\ tickLog' = << >>
    /\ adcStarted' = -1
    /\ adcRead' = -1
    /\ heaterLog' = << >>
    /\ fedSince' = FedNone
    /\ LET stored == IF reason # {} THEN reason \cup flags ELSE reason
       IN  IF stored # {} \/ stored # nvData.resetReason
           THEN /\ flash' = WriteNvData([nvData EXCEPT !.resetReason = stored])
                /\ nvWriteCtx' = ctx
                /\ nvWrites' = 1
           ELSE UNCHANGED << flash, nvWriteCtx >> /\ nvWrites' = 0
    /\ active' = FALSE
    /\ tickState' = 0
    /\ currentHeater' = 0
    /\ thermistorFilters' = [h \in Heaters |-> FilterInit(0, numThermistorReadingsAveraged)]
    /\ zProbeOnFilter' = FilterInit(0, numZProbeReadingsAveraged)
    /\ zProbeOffFilter' = FilterInit(0, numZProbeReadingsAveraged)
    /\ thermistorOverheatSums' = [h \in Heaters |-> 0]
    /\ nvData' = ErasedFlash
    /\ errorCodeBits' = {}
    /\ heatPinValue' = [h \in Heaters |-> PwmFull]
    /\ zProbeModHigh' = FALSE
    /\ adcEnabled' = {}
    /\ adcData' = [c \in AdcChannels |-> 0]
    /\ faultAge' = [h \in Heaters |-> 0]
    /\ tripped' = [h \in Heaters |-> FALSE]
    /\ lastOp' = Op("SoftwareReset", -1, FALSE)
    /\ UNCHANGED analogIn

\* SoftwareResetReason values are sets of flag bits here; 0 is the empty set.
\* A reset the user asks for (reason 0), from the main loop.
SoftwareResetMain ==
    /\ events < MaxEvents
    /\ events' = events + 1
    /\ SoftwareReset({}, {}, "main")

\* RepRap::Tick finds the main loop stuck in a Spin function and resets.
TickStuckReset(flags) ==
    /\ events < MaxEvents
    /\ events' = events + 1
    /\ SoftwareReset({"stuckInSpin"}, flags, "isr")

\* -------------------------------------------------------------- specification

Next ==
    \/ PlatformInit
    \/ Tick
    \/ \E c \in AdcChannels : \E v \in AnalogLevels(c) : AnalogChange(c, v)
    \/ \E h \in Heaters, power \in {0, 1} : SetHeaterMain(h, power)
    \/ \E h \in Heaters, p \in PidChoices : SetPidParameters(h, p)
    \/ \E pt \in {0, 2, 4} : SetZProbeType(pt)
    \/ SoftwareResetMain
    \/ \E flags \in SUBSET {"inUsbOutput"} : TickStuckReset(flags)

Spec == Init /\ [][Next]_vars

\* ------------------------------------------- the averaging filter on its own

\* Largest filter capacity, largest reading and longest run of readings
\* between two Init calls that the filter specification exercises.
MaxFilterSize ==
    3

MaxSample ==
    2

MaxFed ==
    5

Samples == 0 .. MaxSample

FilterSpecInit ==
    /\ active = FALSE
    /\ tickState = 0
    /\ currentHeater = 0
    /\ thermistorFilters = [h \in Heaters |-> FilterInit(0, numThermistorReadingsAveraged)]
    /\ zProbeOnFilter = FilterInit(0, numZProbeReadingsAveraged)
    /\ zProbeOffFilter = FilterInit(0, numZProbeReadingsAveraged)
    /\ thermistorOverheatSums = [h \in Heaters |-> 0]
    /\ nvData = ErasedFlash
    /\ flash = ErasedFlash
    /\ errorCodeBits = {}
    /\ heatPinValue = [h \in Heaters |-> PwmFull]
    /\ zProbeModHigh = FALSE
    /\ adcEnabled = {}
    /\ adcData = [c \in AdcChannels |-> 0]
    /\ analogIn = [c \in AdcChannels |-> IF c = zProbeAdcChannel THEN 0 ELSE RoomLevel]
    /\ nvWriteCtx = "none"
    /\ nvWrites = 0
    /\ lastOp = Op("Platform", -1, FALSE)
    /\ faultAge = [h \in Heaters |-> 0]
    /\ tripped = [h \in Heaters |-> FALSE]
    /\ events = 0
    /\ \E n \in 1 .. MaxFilterSize, v \in Samples : flt = FilterInit(v, n)
    /\ fltLog = << >>
    /\ timer = TimerOff
    /\ HistInit
    /\ LineIdle
    /\ LoopIdle
    /\ FilesInit
    /\ LineInIdle

\* flt.Init(v)
FilterDoInit(v) ==
    /\ flt' = FilterInit(v, flt.size)
    /\ fltLog' = << >>
    /\ UNCHANGED << platformVars, timerVars, histVars, lineVars, loopVars,
                    fileVars, lineInVars >>

\* flt.ProcessReading(x)
FilterDoProcessReading(x) ==
    /\ Len(fltLog) < MaxFed
    /\ flt' = ProcessReading(flt, x)
    /\ fltLog' = Append(fltLog, x)
    /\ UNCHANGED << platformVars, timerVars, histVars, lineVars, loopVars,
                    fileVars, lineInVars >>

FilterNext ==
    \/ \E v \in Samples : FilterDoInit(v)
    \/ \E x \in Samples : FilterDoProcessReading(x)

FilterSpec == FilterSpecInit /\ [][FilterNext]_vars

\* ------------------------------------------------------------ Z probe reading

\* Modulus of the 32-bit words (uint32_t, int32_t, int) of the filter sums,
\* scaled down with the ADC range: the sums stay far below it, a negative
\* difference taken as unsigned wraps to just below it.
WordModulus ==
    65536

\* Conversion to the unsigned word.
Uint32(x) == x % WordModulus

\* Conversion to the signed word (two's complement).
Int32(x) ==
    IF x % WordModulus >= WordModulus \div 2 THEN (x % WordModulus) - WordModulus
    ELSE x % WordModulus

\* C++ division of signed integers, which truncates toward zero; b > 0.
CDiv(a, b) == IF a >= 0 THEN a \div b ELSE -((-a) \div b)

\* Variant of ZProbeFiltersValid that tests the on-filter only.
ZProbeFiltersValidOnOnly(on, off) == IsValid(on)

\* Platform::ZProbe: the test guarding the switch.
ZProbeFiltersValid(on, off) == IsValid(on) /\ IsValid(off)

\* Variant of ZProbeSum with the divisor of GetZProbeSecondaryValues.
ZProbeSumQuarter(a, b) ==
    Int32(Uint32(a + b) \div (4 * numZProbeReadingsAveraged))

\* Platform::ZProbe, cases 1 and 3: the unsigned sums added and divided.
ZProbeSum(a, b) ==
    Int32(Uint32(a + b) \div (8 * numZProbeReadingsAveraged))

\* The division of case 2.  Its operand types follow the declaration of
\* numZProbeReadingsAveraged in Platform.h; the division is the signed one, as
\* the probe model requires negative readings to come out negative.
ZProbeQuotient(d, n) == CDiv(d, n)

\* Variant of ZProbeDifference without the int32_t casts on the sums.
ZProbeDifferenceUnsigned(a, b) ==
    Int32(Uint32(a - b) \div (4 * numZProbeReadingsAveraged))

\* Platform::ZProbe, case 2: the sums are cast to int32_t, subtracted and
\* divided by 4 * numZProbeReadingsAveraged.
ZProbeDifference(a, b) ==
    Int32(ZProbeQuotient(Int32(Int32(a) - Int32(b)), 4 * numZProbeReadingsAveraged))

\* Platform::ZProbe: the switch on nvData.zProbeType.
ZProbeSwitch(type, a, b) ==
    IF type \in {1, 3} THEN ZProbeSum(a, b)
    ELSE IF type = 2 THEN ZProbeDifference(a, b)
    ELSE 0

\* Platform::ZProbe() read in the current state.
ZProbe ==
    IF ZProbeFiltersValid(zProbeOnFilter, zProbeOffFilter)
    THEN ZProbeSwitch(nvData.zProbeType, GetSum(zProbeOnFilter), GetSum(zProbeOffFilter))
    ELSE 0

\* ------------------------------------------------- the Z probe specification

\* Levels the Z probe input takes in the probe specification.
ProbeInputs == { 0, adRangeReal \div 2, adRangeReal }

\* Flash at power-up: a valid record for each of the probe types.
ProbeFlash == { [DefaultNvData EXCEPT !.zProbeType = t] : t \in 0 .. 3 }

ProbeInit ==
    /\ active = FALSE
    /\ tickState = 0
    /\ currentHeater = 0
    /\ thermistorFilters = [h \in Heaters |-> FilterInit(0, numThermistorReadingsAveraged)]
    /\ zProbeOnFilter = FilterInit(0, numZProbeReadingsAveraged)
    /\ zProbeOffFilter = FilterInit(0, numZProbeReadingsAveraged)
    /\ thermistorOverheatSums = [h \in Heaters |-> 0]
    /\ nvData = ErasedFlash
    /\ flash \in ProbeFlash
    /\ errorCodeBits = {}
    /\ heatPinValue = [h \in Heaters |-> PwmFull]
    /\ zProbeModHigh = FALSE
    /\ adcEnabled = {}
    /\ adcData = [c \in AdcChannels |-> 0]
    /\ analogIn = [c \in AdcChannels |-> IF c = zProbeAdcChannel THEN 0 ELSE RoomLevel]
    /\ nvWriteCtx = "none"
    /\ nvWrites = 0
    /\ lastOp = Op("Platform", -1, FALSE)
    /\ faultAge = [h \in Heaters |-> 0]
    /\ tripped = [h \in Heaters |-> FALSE]
    /\ events = 0
    /\ flt = FilterInit(0, 1)
    /\ fltLog = << >>
    /\ timer = TimerOff
    /\ HistInit
    /\ LineIdle
    /\ LoopIdle
    /\ FilesInit
    /\ LineInIdle

\* The level on the Z probe input changes (the bed approaches or recedes, the
\* modulated emitter switches).
ProbeInputChange(v) ==
    /\ active
    /\ v # analogIn[zProbeAdcChannel]
    /\ analogIn' = [analogIn EXCEPT ![zProbeAdcChannel] = v]
    /\ lastOp' = Op("ProbeInputChange", -1, FALSE)
    /\ nvWrites' = 0
    /\ UNCHANGED << filterVars, timerVars, histVars, lineVars, loopVars,
                    fileVars, lineInVars >>
    /\ UNCHANGED << active, tickState, currentHeater, thermistorFilters, zProbeOnFilter,
                    zProbeOffFilter, thermistorOverheatSums, nvData, flash, errorCodeBits,
                    heatPinValue, zProbeModHigh, adcEnabled, adcData, nvWriteCtx, faultAge,
                    tripped, events >>

ProbeNext ==
    \/ PlatformInit
    \/ Tick
    \/ \E v \in ProbeInputs : ProbeInputChange(v)
    \/ \E pt \in 0 .. 4 : SetZProbeType(pt)

ProbeSpec == ProbeInit /\ [][ProbeNext]_vars

\* --------------------------------------- InitZProbe preempted by the tick

\* The stores AveragingFilter::Init makes to a filter of length n, in
\* order: the running sum, the cursor, the fill count, then the cells.
InitStores(n) ==
    << [field |-> "sum", cell |-> -1],
       [field |-> "index", cell |-> -1],
       [field |-> "count", cell |-> -1] >>
    \o [i \in 1 .. n |-> [field |-> "readings", cell |-> i - 1]]

\* AveragingFilter::Init(val): its store st applied to filter f.
InitStore(f, st, val) ==
    IF st.field = "sum" THEN [f EXCEPT !.sum = val * f.size]
    ELSE IF st.field = "index" THEN [f EXCEPT !.index = 0]
    ELSE IF st.field = "count" THEN [f EXCEPT !.count = 0]
    ELSE [f EXCEPT !.readings[st.cell] = val]

\* Platform::SetZProbeType(pt) up to its call of InitZProbe: the type is
\* stored and the main loop is about to run zProbeOnFilter.Init(0).
SetZProbeTypeEnter(pt) ==
    /\ active
    /\ initZProbe.at = "idle"
    /\ events < MaxEvents
    /\ events' = events + 1
    /\ LET newZProbeType == IF pt >= 0 /\ pt <= 3 THEN pt ELSE 0
       IN  IF newZProbeType # nvData.zProbeType
           THEN /\ nvData' = [nvData EXCEPT !.zProbeType = newZProbeType]
                /\ flash' = WriteNvData(nvData')
                /\ nvWriteCtx' = "main"
                /\ nvWrites' = 1
           ELSE UNCHANGED << nvData, flash, nvWriteCtx >> /\ nvWrites' = 0
    /\ initZProbe' = [at |-> "on", step |-> 1]
    /\ fedSince' = [fedSince EXCEPT !.on = 0]
    /\ lastOp' = Op("SetZProbeTypeEnter", -1, FALSE)
    /\ UNCHANGED << filterVars, timerVars, lineVars, fileVars, lineInVars >>
    /\ UNCHANGED << convModHigh, tickLog, adcStarted, adcRead, heaterLog >>
    /\ UNCHANGED << active, tickState, currentHeater, thermistorFilters, zProbeOnFilter,
                    zProbeOffFilter, zProbeModHigh, thermistorOverheatSums, errorCodeBits,
                    heatPinValue, adcEnabled, adcData, analogIn, faultAge, tripped >>

\* Platform::InitZProbe: the main loop makes the next store of the filter
\* Init it is in; tick interrupts can be taken before and after it. After
\* the last store of zProbeOnFilter.Init the main loop enters
\* zProbeOffFilter.Init, after the last store of that one it goes on to the
\* modulation pin.
InitZProbeStore ==
    /\ initZProbe.at \in { "on", "off" }
    /\ LET stores == InitStores(numZProbeReadingsAveraged)
           st     == stores[initZProbe.step]
           last   == initZProbe.step = Len(stores)
       IN  /\ IF initZProbe.at = "on"
              THEN /\ zProbeOnFilter' = InitStore(zProbeOnFilter, st, 0)
                   /\ UNCHANGED zProbeOffFilter
              ELSE /\ zProbeOffFilter' = InitStore(zProbeOffFilter, st, 0)
                   /\ UNCHANGED zProbeOnFilter
           /\ initZProbe' = IF ~last THEN [initZProbe EXCEPT !.step = @ + 1]
                            ELSE IF initZProbe.at = "on" THEN [at |-> "off", step |-> 1]
                            ELSE [at |-> "pins", step |-> 0]
           /\ fedSince' = IF last /\ initZProbe.at = "on"
                          THEN [fedSince EXCEPT !.off = 0]
                          ELSE fedSince
    /\ lastOp' = Op("InitZProbeStore", -1, FALSE)
    /\ nvWrites' = 0
    /\ UNCHANGED << filterVars, timerVars, lineVars, fileVars, lineInVars >>
    /\ UNCHANGED << convModHigh, tickLog, adcStarted, adcRead, heaterLog >>
    /\ UNCHANGED << active, tickState, currentHeater, thermistorFilters, zProbeModHigh,
                    thermistorOverheatSums, nvData, flash, errorCodeBits, heatPinValue,
                    adcEnabled, adcData, analogIn, nvWriteCtx, faultAge, tripped, events >>

\* Platform::InitZProbe after the two filter Inits: the modulation pin is set
\* for the probe type and SetZProbeType returns.
InitZProbePins ==
    /\ initZProbe.at = "pins"
    /\ zProbeModHigh' = InitZProbeModHigh(nvData.zProbeType, zProbeModHigh)
    /\ initZProbe' = [at |-> "idle", step |-> 0]
    /\ lastOp' = Op("SetZProbeType", -1, FALSE)
    /\ nvWrites' = 0
    /\ UNCHANGED << filterVars, timerVars, histVars, lineVars, fileVars, lineInVars >>
    /\ UNCHANGED << active, tickState, currentHeater, thermistorFilters, zProbeOnFilter,
                    zProbeOffFilter, thermistorOverheatSums, nvData, flash, errorCodeBits,
                    heatPinValue, adcEnabled, adcData, analogIn, nvWriteCtx, faultAge,
                    tripped, events >>

\* Levels the Z probe input takes while InitZProbe is preempted.
RaceInputs == { adRangeReal \div 2 }

\* Probe types the main loop sets while ticks preempt it.
RaceTypes == { 0, 2 }

\* Power-up with a valid record for the modulated probe.
RaceInit ==
    /\ ProbeInit
    /\ flash = [DefaultNvData EXCEPT !.zProbeType = 2]

RaceNext ==
    \/ PlatformInit
    \/ Tick
    \/ \E v \in RaceInputs : ProbeInputChange(v)
    \/ \E pt \in RaceTypes : SetZProbeTypeEnter(pt)
    \/ InitZProbeStore
    \/ InitZProbePins

RaceSpec == RaceInit /\ [][RaceNext]_vars

\* --------------------------------------- setters of the configuration record

\* The part every setter below shares: it runs in the main loop, stores the
\* record nv and calls WriteNvData `writes` times.
SetterEffect(name, nv, writes) ==
    /\ active
    /\ events < MaxEvents
    /\ events' = events + 1
    /\ nvData' = nv
    /\ nvWrites' = writes
    /\ IF writes > 0
       THEN flash' = WriteNvData(nv) /\ nvWriteCtx' = "main"
       ELSE UNCHANGED << flash, nvWriteCtx >>
    /\ lastOp' = Op(name, -1, FALSE)
    /\ UNCHANGED << filterVars, timerVars, histVars, lineVars, loopVars,
                    fileVars, lineInVars >>
    /\ UNCHANGED << active, tickState, currentHeater, thermistorFilters, zProbeOnFilter,
                    zProbeOffFilter, thermistorOverheatSums, errorCodeBits, heatPinValue,
                    zProbeModHigh, adcEnabled, adcData, analogIn, faultAge, tripped >>

\* Platform::SetZProbeAxes(axes)
SetZProbeAxes(axes) ==
    SetterEffect("SetZProbeAxes",
                 [nvData EXCEPT !.zProbeAxes = [axis \in 0 .. (AXES - 1) |-> axes[axis]]], 1)

\* Platform::GetZProbeParameters on the record nv: the value returned and the
\* parameters copied out (the caller's params are left alone when it is false).
GetZProbeParametersOf(nv) ==
    IF nv.zProbeType = 0 THEN [ok |-> TRUE, params |-> nv.switchZProbeParameters]
    ELSE IF nv.zProbeType \in {1, 2} THEN [ok |-> TRUE, params |-> nv.irZProbeParameters]
    ELSE IF nv.zProbeType = 3 THEN [ok |-> TRUE, params |-> nv.alternateZProbeParameters]
    ELSE [ok |-> FALSE, params |-> "untouched"]

\* Variant of SetZProbeParameters whose case 3 writes the IR variant.
SetZProbeParametersIrForAlternate(params) ==
    IF nvData.zProbeType = 0
    THEN IF nvData.switchZProbeParameters # params
         THEN SetterEffect("SetZProbeParameters",
                           [nvData EXCEPT !.switchZProbeParameters = params], 1)
         ELSE SetterEffect("SetZProbeParameters", nvData, 0)
    ELSE IF nvData.zProbeType \in {1, 2}
    THEN IF nvData.irZProbeParameters # params
         THEN SetterEffect("SetZProbeParameters",
                           [nvData EXCEPT !.irZProbeParameters = params], 1)
         ELSE SetterEffect("SetZProbeParameters", nvData, 0)
    ELSE IF nvData.zProbeType = 3
    THEN IF nvData.alternateZProbeParameters # params
         THEN SetterEffect("SetZProbeParameters",
                           [nvData EXCEPT !.irZProbeParameters = params], 1)
         ELSE SetterEffect("SetZProbeParameters", nvData, 0)
    ELSE SetterEffect("SetZProbeParameters", nvData, 0)

\* Platform::SetZProbeParameters(params)
SetZProbeParameters(params) ==
    IF nvData.zProbeType = 0
    THEN IF nvData.switchZProbeParameters # params
         THEN SetterEffect("SetZProbeParameters",
                           [nvData EXCEPT !.switchZProbeParameters = params], 1)
         ELSE SetterEffect("SetZProbeParameters", nvData, 0)
    ELSE IF nvData.zProbeType \in {1, 2}
    THEN IF nvData.irZProbeParameters # params
         THEN SetterEffect("SetZProbeParameters",
                           [nvData EXCEPT !.irZProbeParameters = params], 1)
         ELSE SetterEffect("SetZProbeParameters", nvData, 0)
    ELSE IF nvData.zProbeType = 3
    THEN IF nvData.alternateZProbeParameters # params
         THEN SetterEffect("SetZProbeParameters",
                           [nvData EXCEPT !.alternateZProbeParameters = params], 1)
         ELSE SetterEffect("SetZProbeParameters", nvData, 0)
    ELSE SetterEffect("SetZProbeParameters", nvData, 0)

\* Platform::SetEmulating(c)
SetEmulating(c) ==
    IF c # "me" /\ c # "reprapFirmware" /\ c # "marlin"
    THEN SetterEffect("SetEmulating", nvData, 0)
    ELSE LET c2 == IF c = "reprapFirmware" THEN "me" ELSE c
         IN  IF c2 # nvData.compatibility
             THEN SetterEffect("SetEmulating", [nvData EXCEPT !.compatibility = c2], 1)
             ELSE SetterEffect("SetEmulating", nvData, 0)

\* Platform::UpdateNetworkAddress(dst, src): the bytes of dst afterwards, and
\* whether any byte differed.
UpdatedAddress(dst, src) == [i \in 1 .. 4 |-> IF dst[i] # src[i] THEN src[i] ELSE dst[i]]

AddressChanged(dst, src) == \E i \in 1 .. 4 : dst[i] # src[i]

\* Platform::SetIPAddress(ip)
SetIPAddress(ip) ==
    SetterEffect("SetIPAddress",
                 [nvData EXCEPT !.ipAddress = UpdatedAddress(nvData.ipAddress, ip)],
                 IF AddressChanged(nvData.ipAddress, ip) THEN 1 ELSE 0)

\* Platform::SetGateWay(gw)
SetGateWay(gw) ==
    SetterEffect("SetGateWay",
                 [nvData EXCEPT !.gateWay = UpdatedAddress(nvData.gateWay, gw)],
                 IF AddressChanged(nvData.gateWay, gw) THEN 1 ELSE 0)

\* Platform::SetNetMask(nm)
SetNetMask(nm) ==
    SetterEffect("SetNetMask",
                 [nvData EXCEPT !.netMask = UpdatedAddress(nvData.netMask, nm)],
                 IF AddressChanged(nvData.netMask, nm) THEN 1 ELSE 0)

\* ------------------------------------ the configuration store specification

\* Flash at power-up: never written, written by a firmware with another magic
\* value, or holding a valid record that differs from the defaults.
NvFlash ==
    { ErasedFlash,
      [DefaultNvData EXCEPT !.magic = "otherValue", !.zProbeType = 2,
                            !.resetReason = {"stuckInSpin"}],
      [DefaultNvData EXCEPT !.zProbeType = 1, !.compatibility = "marlin",
                            !.ipAddress = << 10, 0, 0, 2 >>,
                            !.zProbeAxes = [axis \in 0 .. (AXES - 1) |-> FALSE],
                            !.irZProbeParameters = [adcValue |-> 5, height |-> 9],
                            !.pidParams[0] = [DefaultPid EXCEPT !.thermistorSeriesR = 14],
                            !.resetReason = {"stuckInSpin"}],
      [DefaultNvData EXCEPT !.zProbeType = 3] }

\* Values the setters are called with.
AxesChoices == { Z_PROBE_AXES, [axis \in 0 .. (AXES - 1) |-> TRUE] }

ProbeParameterChoices == { ZProbeParametersInit(Z_PROBE_STOP_HEIGHT), [adcValue |-> 5, height |-> 9] }

AddressChoices == { IP_ADDRESS, << 192, 168, 1, 14 >> }

CompatibilityChoices == { "me", "reprapFirmware", "marlin", "teacup" }

NvInit ==
    /\ active = FALSE
    /\ tickState = 0
    /\ currentHeater = 0
    /\ thermistorFilters = [h \in Heaters |-> FilterInit(0, numThermistorReadingsAveraged)]
    /\ zProbeOnFilter = FilterInit(0, numZProbeReadingsAveraged)
    /\ zProbeOffFilter = FilterInit(0, numZProbeReadingsAveraged)
    /\ thermistorOverheatSums = [h \in Heaters |-> 0]
    /\ nvData = ErasedFlash
    /\ flash \in NvFlash
    /\ errorCodeBits = {}
    /\ heatPinValue = [h \in Heaters |-> PwmFull]
    /\ zProbeModHigh = FALSE
    /\ adcEnabled = {}
    /\ adcData = [c \in AdcChannels |-> 0]
    /\ analogIn = [c \in AdcChannels |-> IF c = zProbeAdcChannel THEN 0 ELSE RoomLevel]
    /\ nvWriteCtx = "none"
    /\ nvWrites = 0
    /\ lastOp = Op("Platform", -1, FALSE)
    /\ faultAge = [h \in Heaters |-> 0]
    /\ tripped = [h \in Heaters |-> FALSE]
    /\ events = 0
    /\ flt = FilterInit(0, 1)
    /\ fltLog = << >>
    /\ timer = TimerOff
    /\ HistInit
    /\ LineIdle
    /\ LoopIdle
    /\ FilesInit
    /\ LineInIdle

NvNext ==
    \/ PlatformInit
    \/ \E pt \in {0, 2, 4} : SetZProbeType(pt)
    \/ \E axes \in AxesChoices : SetZProbeAxes(axes)
    \/ \E params \in ProbeParameterChoices : SetZProbeParameters(params)
    \/ \E h \in Heaters, p \in PidChoices : SetPidParameters(h, p)
    \/ \E ip \in AddressChoices : SetIPAddress(ip)
    \/ \E gw \in AddressChoices : SetGateWay(gw)
    \/ \E nm \in AddressChoices : SetNetMask(nm)
    \/ \E c \in CompatibilityChoices : SetEmulating(c)
    \/ SoftwareResetMain
    \/ \E flags \in SUBSET {"inUsbOutput"} : TickStuckReset(flags)

NvSpec == NvInit /\ [][NvNext]_vars

\* ------------------------------------------------ the timer specification

\* Periods SetInterrupt is called with, in tenths of a microsecond: negative,
\* zero, below one microsecond, the standby period, and step periods.
InterruptPeriods ==
    { 0 - 2000, 0 - 15, 0 - 1, 0, 5, 15, 300, 1999, STANDBY_INTERRUPT_RATE, 2001, 10000 }

\* Platform::SetInterrupt(s), called by the step scheduler.
SetInterrupt(s) ==
    /\ active
    /\ timer' = SetInterruptResult(s)
    /\ lastOp' = Op("SetInterrupt", -1, FALSE)
    /\ nvWrites' = 0
    /\ UNCHANGED << filterVars, histVars, lineVars, loopVars, fileVars, lineInVars >>
    /\ UNCHANGED << active, tickState, currentHeater, thermistorFilters, zProbeOnFilter,
                    zProbeOffFilter, thermistorOverheatSums, nvData, flash, errorCodeBits,
                    heatPinValue, zProbeModHigh, adcEnabled, adcData, analogIn, nvWriteCtx,
                    faultAge, tripped, events >>

TimerInit ==
    /\ active = FALSE
    /\ tickState = 0
    /\ currentHeater = 0
    /\ thermistorFilters = [h \in Heaters |-> FilterInit(0, numThermistorReadingsAveraged)]
    /\ zProbeOnFilter = FilterInit(0, numZProbeReadingsAveraged)
    /\ zProbeOffFilter = FilterInit(0, numZProbeReadingsAveraged)
    /\ thermistorOverheatSums = [h \in Heaters |-> 0]
    /\ nvData = ErasedFlash
    /\ flash \in InitialFlash
    /\ errorCodeBits = {}
    /\ heatPinValue = [h \in Heaters |-> PwmFull]
    /\ zProbeModHigh = FALSE
    /\ adcEnabled = {}
    /\ adcData = [c \in AdcChannels |-> 0]
    /\ analogIn = [c \in AdcChannels |-> IF c = zProbeAdcChannel THEN 0 ELSE RoomLevel]
    /\ nvWriteCtx = "none"
    /\ nvWrites = 0
    /\ lastOp = Op("Platform", -1, FALSE)
    /\ faultAge = [h \in Heaters |-> 0]
    /\ tripped = [h \in Heaters |-> FALSE]
    /\ events = 0
    /\ flt = FilterInit(0, 1)
    /\ fltLog = << >>
    /\ timer = TimerOff
    /\ HistInit
    /\ LineIdle
    /\ LoopIdle
    /\ FilesInit
    /\ LineInIdle

TimerNext ==
    \/ PlatformInit
    \/ Tick
    \/ \E s \in InterruptPeriods : SetInterrupt(s)
    \/ SoftwareResetMain

TimerSpec == TimerInit /\ [][TimerNext]_vars

\* ------------------------------------------------------ temperature reading

\* Full-scale value of the readings GetRawTemperature returns, and the value
\* at or above which a reading means a disconnected thermistor.
adRangeVirtual ==
    15

adDisconnectedVirtual == adRangeVirtual - 1

\* Variant of DisconnectTestValue that adds the negative high offset.
DisconnectTestValueAddsOffset(rawTemp, p) ==
    IF p.adcHighOffset < 0 THEN rawTemp + CDiv(p.adcHighOffset, 2) ELSE rawTemp

\* Platform::GetTemperature: rawTemp as compared against adDisconnectedVirtual,
\* after rawTemp -= (int) p.adcHighOffset for a negative high offset.
DisconnectTestValue(rawTemp, p) ==
    IF p.adcHighOffset < 0 THEN rawTemp - CDiv(p.adcHighOffset, 2) ELSE rawTemp

\* Platform::GetTemperature: the reading after "+ 0.5" and "-= adcLowOffset",
\* in halves of a count.
CorrectedReading2(rawTemp, p) == 2 * rawTemp + 1 - p.adcLowOffset

\* Platform::GetTemperature: adRangeVirtual + 1 + adcHighOffset - adcLowOffset,
\* in halves of a count.
CorrectedRange2(p) == 2 * (adRangeVirtual + 1) + p.adcHighOffset - p.adcLowOffset

\* With r2 the corrected reading and d2 the corrected range, the resistance
\* of Platform::GetTemperature is r2 * thermistorSeriesR / (d2 - r2).  It is
\* not a number when d2 is zero (the scale factor is infinite) and infinite
\* when d2 - r2 is zero.
ResistanceNum(rawTemp, p) == CorrectedReading2(rawTemp, p) * p.thermistorSeriesR

ResistanceDen(rawTemp, p) == CorrectedRange2(p) - CorrectedReading2(rawTemp, p)

ResistanceKind(rawTemp, p) ==
    IF CorrectedRange2(p) = 0 THEN "nan"
    ELSE IF ResistanceDen(rawTemp, p) = 0 THEN "inf"
    ELSE "finite"

\* Variant of ResistanceAtMostRInf with < in place of <=.
ResistanceBelowRInf(rawTemp, p) ==
    /\ ResistanceKind(rawTemp, p) = "finite"
    /\ IF ResistanceDen(rawTemp, p) > 0
       THEN ResistanceNum(rawTemp, p) < p.thermistorInfR * ResistanceDen(rawTemp, p)
       ELSE ResistanceNum(rawTemp, p) > p.thermistorInfR * ResistanceDen(rawTemp, p)

\* Platform::GetTemperature: resistance <= p.GetRInf(), false when the
\* resistance is infinite or not a number.
ResistanceAtMostRInf(rawTemp, p) ==
    /\ ResistanceKind(rawTemp, p) = "finite"
    /\ IF ResistanceDen(rawTemp, p) > 0
       THEN ResistanceNum(rawTemp, p) <= p.thermistorInfR * ResistanceDen(rawTemp, p)
       ELSE ResistanceNum(rawTemp, p) >= p.thermistorInfR * ResistanceDen(rawTemp, p)

\* Platform::GetTemperature: which return statement it takes.
GetTemperatureBranch(rawTemp, p) ==
    IF DisconnectTestValue(rawTemp, p) >= adDisconnectedVirtual THEN "disconnected"
    ELSE IF ResistanceAtMostRInf(rawTemp, p) THEN "short"
    ELSE "log"

\* Platform::GetTemperature for the reading rawTemp of GetRawTemperature and
\* the calibration p: which kind of value it returns.  In the last return
\* statement an infinite resistance gives ABS_ZERO + Beta / log(inf) =
\* ABS_ZERO and a resistance that is not a number gives a result that is not
\* a number.
GetTemperatureOf(rawTemp, p) ==
    IF GetTemperatureBranch(rawTemp, p) = "disconnected" THEN "ABS_ZERO"
    ELSE IF GetTemperatureBranch(rawTemp, p) = "short" THEN "2000"
    ELSE IF ResistanceKind(rawTemp, p) = "nan" THEN "NaN"
    ELSE IF ResistanceKind(rawTemp, p) = "inf" THEN "ABS_ZERO"
    ELSE "temperature"

\* Calibrations with low and high ADC offsets of either sign, whole and
\* fractional, in halves of a count.
AdcOffsets == { 0 - 5, 0 - 1, 0, 4 }

TempFlash ==
    { [DefaultNvData EXCEPT !.pidParams =
          [h \in Heaters |-> [DefaultPid EXCEPT !.adcLowOffset = lo, !.adcHighOffset = hi,
                                                !.thermistorSeriesR = IF h = 0 THEN 6 ELSE 14]]]
      : lo \in AdcOffsets, hi \in AdcOffsets }

\* Platform::GetTemperature(heater), called by the heater control loop when
\* GetRawTemperature(heater) returns rawTemp.
GetTemperature(heater, rawTemp) ==
    /\ active
    /\ lastOp' = [op |-> "GetTemperature", heater |-> heater, forced |-> FALSE, wasOn |-> FALSE,
                  rawTemp |-> rawTemp,
                  branch |-> GetTemperatureBranch(rawTemp, nvData.pidParams[heater]),
                  result |-> GetTemperatureOf(rawTemp, nvData.pidParams[heater])]
    /\ nvWrites' = 0
    /\ UNCHANGED << filterVars, timerVars, histVars, lineVars, loopVars,
                    fileVars, lineInVars >>
    /\ UNCHANGED << active, tickState, currentHeater, thermistorFilters, zProbeOnFilter,
                    zProbeOffFilter, thermistorOverheatSums, nvData, flash, errorCodeBits,
                    heatPinValue, zProbeModHigh, adcEnabled, adcData, analogIn, nvWriteCtx,
                    faultAge, tripped, events >>

TempInit ==
    /\ active = FALSE
    /\ tickState = 0
    /\ currentHeater = 0
    /\ thermistorFilters = [h \in Heaters |-> FilterInit(0, numThermistorReadingsAveraged)]
    /\ zProbeOnFilter = FilterInit(0, numZProbeReadingsAveraged)
    /\ zProbeOffFilter = FilterInit(0, numZProbeReadingsAveraged)
    /\ thermistorOverheatSums = [h \in Heaters |-> 0]
    /\ nvData = ErasedFlash
    /\ flash \in TempFlash
    /\ errorCodeBits = {}
    /\ heatPinValue = [h \in Heaters |-> PwmFull]
    /\ zProbeModHigh = FALSE
    /\ adcEnabled = {}
    /\ adcData = [c \in AdcChannels |-> 0]
    /\ analogIn = [c \in AdcChannels |-> IF c = zProbeAdcChannel THEN 0 ELSE RoomLevel]
    /\ nvWriteCtx = "none"
    /\ nvWrites = 0
    /\ lastOp = Op("Platform", -1, FALSE)
    /\ faultAge = [h \in Heaters |-> 0]
    /\ tripped = [h \in Heaters |-> FALSE]
    /\ events = 0
    /\ flt = FilterInit(0, 1)
    /\ fltLog = << >>
    /\ timer = TimerOff
    /\ HistInit
    /\ LineIdle
    /\ LoopIdle
    /\ FilesInit
    /\ LineInIdle

TempNext ==
    \/ PlatformInit
    \/ \E h \in Heaters, rawTemp \in 0 .. adRangeVirtual : GetTemperature(h, rawTemp)

TempSpec == TempInit /\ [][TempNext]_vars

\* ------------------------------------------------------------- end stops

\* Platform::Stopped(drive): lowPin and highPin tell whether the drive's low
\* and high end-stop inputs read ENDSTOP_HIT; every drive has both pins.
StoppedOf(drive, lowPin, highPin) ==
    IF nvData.zProbeType > 0 /\ drive < AXES /\ nvData.zProbeAxes[drive]
    THEN LET zProbeVal == ZProbe
             zProbeADValue == IF nvData.zProbeType = 3
                              THEN nvData.alternateZProbeParameters.adcValue
                              ELSE nvData.irZProbeParameters.adcValue
         IN  IF zProbeVal >= zProbeADValue THEN "lowHit"
             ELSE IF zProbeVal * 10 >= zProbeADValue * 9 THEN "lowNear"
             ELSE "noStop"
    ELSE IF lowPin THEN "lowHit"
    ELSE IF highPin THEN "highHit"
    ELSE "noStop"

\* The main loop calls Platform::Stopped(drive).
Stopped(drive, lowPin, highPin) ==
    /\ active
    /\ lastOp' = [op |-> "Stopped", heater |-> -1, forced |-> FALSE, wasOn |-> FALSE,
                  drive |-> drive, result |-> StoppedOf(drive, lowPin, highPin)]
    /\ nvWrites' = 0
    /\ UNCHANGED << filterVars, timerVars, histVars, lineVars, loopVars,
                    fileVars, lineInVars >>
    /\ UNCHANGED << active, tickState, currentHeater, thermistorFilters, zProbeOnFilter,
                    zProbeOffFilter, thermistorOverheatSums, nvData, flash, errorCodeBits,
                    heatPinValue, zProbeModHigh, adcEnabled, adcData, analogIn, nvWriteCtx,
                    faultAge, tripped, events >>

\* Trigger thresholds stored in the record: zero, and the default.
StopThresholds == { 0, ZProbeParametersInit(0).adcValue }

\* Flash at power-up: a valid record for each probe type and threshold.
StopFlash ==
    { [DefaultNvData EXCEPT !.zProbeType = t,
                            !.irZProbeParameters.adcValue = a,
                            !.alternateZProbeParameters.adcValue = a]
      : t \in 0 .. 3, a \in StopThresholds }

\* Drives Stopped is asked about: the axes and the first extruder.
StopDrives == 0 .. AXES

StopInit ==
    /\ active = FALSE
    /\ tickState = 0
    /\ currentHeater = 0
    /\ thermistorFilters = [h \in Heaters |-> FilterInit(0, numThermistorReadingsAveraged)]
    /\ zProbeOnFilter = FilterInit(0, numZProbeReadingsAveraged)
    /\ zProbeOffFilter = FilterInit(0, numZProbeReadingsAveraged)
    /\ thermistorOverheatSums = [h \in Heaters |-> 0]
    /\ nvData = ErasedFlash
    /\ flash \in StopFlash
    /\ errorCodeBits = {}
    /\ heatPinValue = [h \in Heaters |-> PwmFull]
    /\ zProbeModHigh = FALSE
    /\ adcEnabled = {}
    /\ adcData = [c \in AdcChannels |-> 0]
    /\ analogIn = [c \in AdcChannels |-> IF c = zProbeAdcChannel THEN 0 ELSE RoomLevel]
    /\ nvWriteCtx = "none"
    /\ nvWrites = 0
    /\ lastOp = Op("Platform", -1, FALSE)
    /\ faultAge = [h \in Heaters |-> 0]
    /\ tripped = [h \in Heaters |-> FALSE]
    /\ events = 0
    /\ flt = FilterInit(0, 1)
    /\ fltLog = << >>
    /\ timer = TimerOff
    /\ HistInit
    /\ LineIdle
    /\ LoopIdle
    /\ FilesInit
    /\ LineInIdle

StopNext ==
    \/ PlatformInit
    \/ Tick
    \/ \E v \in ProbeInputs : ProbeInputChange(v)
    \/ \E drive \in StopDrives, lowPin \in BOOLEAN, highPin \in BOOLEAN :
          Stopped(drive, lowPin, highPin)

StopSpec == StopInit /\ [][StopNext]_vars

\* --------------------------------------------------------------- FileStore

\* FileStore calls made in one run.
MaxFileOps ==
    6

\* Largest openCount a run reaches.
MaxOpenCount ==
    3

\* FileStore::Open(directory, fileName, write); openOk: f_open returned FR_OK.
Open(f, write, openOk) ==
    LET g == [f EXCEPT !.writing = write, !.lastBufferEntry = FILE_BUF_LEN - 1]
    IN  IF ~openOk THEN g
        ELSE [g EXCEPT !.bufferPointer = IF write THEN 0 ELSE FILE_BUF_LEN,
                       !.inUse = TRUE,
                       !.openCount = 1]

\* FileStore::Duplicate on a slot in use.
Duplicate(f) == [f EXCEPT !.openCount = @ + 1]

\* FileStore::WriteBuffer; writeOk: InternalWriteBlock returned true.
WriteBuffer(f, writeOk) ==
    IF f.bufferPointer # 0 /\ writeOk THEN [f EXCEPT !.bufferPointer = 0] ELSE f

\* The value FileStore::WriteBuffer returns.
WriteBufferOk(f, writeOk) == f.bufferPointer = 0 \/ writeOk

\* Variant of Close that frees the slot whatever the count has become.
CloseFreesAlways(f, writeOk) ==
    LET g == [f EXCEPT !.openCount = @ - 1]
    IN  [(IF g.writing THEN WriteBuffer(g, writeOk) ELSE g)
            EXCEPT !.inUse = FALSE, !.writing = FALSE, !.lastBufferEntry = 0]

\* FileStore::Close on a slot in use: the slot afterwards.
Close(f, writeOk) ==
    LET g == [f EXCEPT !.openCount = @ - 1]
    IN  IF g.openCount # 0 THEN g
        ELSE [(IF g.writing THEN WriteBuffer(g, writeOk) ELSE g)
                EXCEPT !.inUse = FALSE, !.writing = FALSE, !.lastBufferEntry = 0]

\* FileStore::Seek on a slot in use.
Seek(f, writeOk) ==
    [(IF f.writing THEN WriteBuffer(f, writeOk) ELSE f)
        EXCEPT !.bufferPointer = IF f.writing THEN 0 ELSE FILE_BUF_LEN]

\* The first slot Platform::GetFileStore finds free, or -1.
FreeSlot ==
    IF \E i \in Slots : ~files[i].inUse
    THEN CHOOSE i \in Slots : ~files[i].inUse /\ \A j \in Slots : j < i => files[j].inUse
    ELSE -1

\* Platform::GetFileStore(directory, fileName, write)
GetFileStore(write, openOk) ==
    /\ fileHist.ops < MaxFileOps
    /\ IF FreeSlot = -1
       THEN /\ UNCHANGED << files, fatOpen >>
            /\ fileHist' = FileCall(fileHist.ops + 1, "GetFileStore", -1, FALSE, TRUE,
                                    FALSE, FALSE)
       ELSE /\ files' = [files EXCEPT ![FreeSlot] = Open(@, write, openOk)]
            /\ fatOpen' = [fatOpen EXCEPT ![FreeSlot] = openOk]
            /\ fileHist' = FileCall(fileHist.ops + 1, "GetFileStore", FreeSlot, openOk,
                                    ~openOk, FALSE, FALSE)
    /\ UNCHANGED << platformVars, filterVars, timerVars, histVars, lineVars,
                    loopVars, lineInVars >>

\* FileStore::Duplicate on slot i.
FileDuplicate(i) ==
    /\ fileHist.ops < MaxFileOps
    /\ files[i].openCount < MaxOpenCount
    /\ IF ~files[i].inUse
       THEN /\ UNCHANGED files
            /\ fileHist' = FileCall(fileHist.ops + 1, "Duplicate", i, FALSE, TRUE, FALSE,
                                    FALSE)
       ELSE /\ files' = [files EXCEPT ![i] = Duplicate(@)]
            /\ fileHist' = FileCall(fileHist.ops + 1, "Duplicate", i, TRUE, FALSE, FALSE,
                                    FALSE)
    /\ UNCHANGED fatOpen
    /\ UNCHANGED << platformVars, filterVars, timerVars, histVars, lineVars,
                    loopVars, lineInVars >>

\* FileStore::Close on slot i; writeOk, syncOk, closeOk: the results of
\* f_write, f_sync and f_close.
FileClose(i, writeOk, syncOk, closeOk) ==
    /\ fileHist.ops < MaxFileOps
    /\ IF ~files[i].inUse
       THEN /\ UNCHANGED << files, fatOpen >>
            /\ fileHist' = FileCall(fileHist.ops + 1, "Close", i, FALSE, TRUE, FALSE, FALSE)
       ELSE /\ files' = [files EXCEPT ![i] = Close(@, writeOk)]
            /\ IF files[i].openCount - 1 # 0
               THEN /\ UNCHANGED fatOpen
                    /\ fileHist' = FileCall(fileHist.ops + 1, "Close", i, TRUE, FALSE,
                                            FALSE, FALSE)
               ELSE /\ fatOpen' = [fatOpen EXCEPT ![i] = FALSE]
                    /\ fileHist' =
                         FileCall(fileHist.ops + 1, "Close", i,
                                  /\ (files[i].writing
                                        => WriteBufferOk(files[i], writeOk) /\ syncOk)
                                  /\ closeOk,
                                  files[i].writing /\ ~WriteBufferOk(files[i], writeOk),
                                  TRUE, FALSE)
    /\ UNCHANGED << platformVars, filterVars, timerVars, histVars, lineVars,
                    loopVars, lineInVars >>

\* FileStore::Write(char b) on slot i. With bufferPointer at or beyond
\* FILE_BUF_LEN the store goes outside buf and what the slot holds
\* afterwards is not defined: any pointer value bp.
FileWrite(i, writeOk, bp) ==
    /\ fileHist.ops < MaxFileOps
    /\ IF ~files[i].inUse
       THEN /\ bp = 0
            /\ UNCHANGED files
            /\ fileHist' = FileCall(fileHist.ops + 1, "Write", i, FALSE, TRUE, FALSE, FALSE)
       ELSE IF files[i].bufferPointer >= FILE_BUF_LEN
       THEN /\ files' = [files EXCEPT ![i].bufferPointer = bp]
            /\ fileHist' = FileCall(fileHist.ops + 1, "Write", i, writeOk, ~writeOk, FALSE,
                                    TRUE)
       ELSE /\ bp = 0
            /\ LET g == [files[i] EXCEPT !.bufferPointer = @ + 1]
               IN  IF g.bufferPointer >= FILE_BUF_LEN
                   THEN /\ files' = [files EXCEPT ![i] = WriteBuffer(g, writeOk)]
                        /\ fileHist' = FileCall(fileHist.ops + 1, "Write", i,
                                                WriteBufferOk(g, writeOk),
                                                ~WriteBufferOk(g, writeOk), FALSE, FALSE)
                   ELSE /\ files' = [files EXCEPT ![i] = g]
                        /\ fileHist' = FileCall(fileHist.ops + 1, "Write", i, TRUE, FALSE,
                                                FALSE, FALSE)
    /\ UNCHANGED fatOpen
    /\ UNCHANGED << platformVars, filterVars, timerVars, histVars, lineVars,
                    loopVars, lineInVars >>

\* FileStore::Write(const char *s, unsigned int len), the block write, on
\* slot i; writeOk: the flush of the buffer, blockOk: the write of the block.
FileWriteBlock(i, writeOk, blockOk) ==
    /\ fileHist.ops < MaxFileOps
    /\ IF ~files[i].inUse
       THEN /\ UNCHANGED files
            /\ fileHist' = FileCall(fileHist.ops + 1, "WriteBlock", i, FALSE, TRUE, FALSE,
                                    FALSE)
       ELSE /\ files' = [files EXCEPT ![i] = WriteBuffer(@, writeOk)]
            /\ fileHist' = FileCall(fileHist.ops + 1, "WriteBlock", i,
                                    WriteBufferOk(files[i], writeOk) /\ blockOk,
                                    ~(WriteBufferOk(files[i], writeOk) /\ blockOk),
                                    FALSE, FALSE)
    /\ UNCHANGED fatOpen
    /\ UNCHANGED << platformVars, filterVars, timerVars, histVars, lineVars,
                    loopVars, lineInVars >>

\* FileStore::Flush on slot i.
FileFlush(i, writeOk, syncOk) ==
    /\ fileHist.ops < MaxFileOps
    /\ IF ~files[i].inUse
       THEN /\ UNCHANGED files
            /\ fileHist' = FileCall(fileHist.ops + 1, "Flush", i, FALSE, TRUE, FALSE, FALSE)
       ELSE /\ files' = [files EXCEPT ![i] = WriteBuffer(@, writeOk)]
            /\ fileHist' = FileCall(fileHist.ops + 1, "Flush", i,
                                    WriteBufferOk(files[i], writeOk) /\ syncOk,
                                    ~WriteBufferOk(files[i], writeOk), FALSE, FALSE)
    /\ UNCHANGED fatOpen
    /\ UNCHANGED << platformVars, filterVars, timerVars, histVars, lineVars,
                    loopVars, lineInVars >>

\* FileStore::Seek(pos) on slot i; seekOk: f_lseek returned FR_OK.
FileSeek(i, writeOk, seekOk) ==
    /\ fileHist.ops < MaxFileOps
    /\ IF ~files[i].inUse
       THEN /\ UNCHANGED files
            /\ fileHist' = FileCall(fileHist.ops + 1, "Seek", i, FALSE, TRUE, FALSE, FALSE)
       ELSE /\ files' = [files EXCEPT ![i] = Seek(@, writeOk)]
            /\ fileHist' = FileCall(fileHist.ops + 1, "Seek", i, seekOk,
                                    files[i].writing /\ ~WriteBufferOk(files[i], writeOk),
                                    FALSE, FALSE)
    /\ UNCHANGED fatOpen
    /\ UNCHANGED << platformVars, filterVars, timerVars, histVars, lineVars,
                    loopVars, lineInVars >>

FileSpecInit ==
    /\ Init
    /\ flash = ErasedFlash

FileNext ==
    \/ \E write, openOk \in BOOLEAN : GetFileStore(write, openOk)
    \/ \E i \in Slots : FileDuplicate(i)
    \/ \E i \in Slots : \E writeOk, syncOk, closeOk \in BOOLEAN :
          FileClose(i, writeOk, syncOk, closeOk)
    \/ \E i \in Slots : \E writeOk \in BOOLEAN : \E bp \in 0 .. FILE_BUF_LEN :
          FileWrite(i, writeOk, bp)
    \/ \E i \in Slots : \E writeOk, blockOk \in BOOLEAN : FileWriteBlock(i, writeOk, blockOk)
    \/ \E i \in Slots : \E writeOk, syncOk \in BOOLEAN : FileFlush(i, writeOk, syncOk)
    \/ \E i \in Slots : \E writeOk, seekOk \in BOOLEAN : FileSeek(i, writeOk, seekOk)

FileSpec == FileSpecInit /\ [][FileNext]_vars

\* ------------------------------------------------------------ Line output

\* Bound on the number of Line::Write calls in a run.
MaxWrites == 6

\* Characters written: a printable character and the newline.
LineChars == { "a", "nl" }

\* iface.write(b): the interface takes the byte; canWrite() is u.room.
IfaceWrite(u, b) == [room |-> u.room - 1, sent |-> Append(u.sent, b)]

\* Line::TryFlushOutput on the pair st of the Line object l and its
\* interface u.
RECURSIVE TryFlushOutput(_)
TryFlushOutput(st) ==
    IF st.l.outputNumChars # 0 /\ st.u.room # 0
    THEN TryFlushOutput(
             [l |-> [st.l EXCEPT !.outputGetIndex = (@ + 1) % lineOutBufSize,
                                 !.outputNumChars = @ - 1],
              u |-> IfaceWrite(st.u, st.l.outBuffer[st.l.outputGetIndex])])
    ELSE st

\* Variant of PutOutBuffer that stores at the get index.
PutOutBufferAtGetIndex(l, b) ==
    [l EXCEPT !.outBuffer[l.outputGetIndex] = b,
              !.outputNumChars = @ + 1]

\* outBuffer[(outputGetIndex + outputNumChars) % lineOutBufSize] = b;
\* ++outputNumChars.
PutOutBuffer(l, b) ==
    [l EXCEPT !.outBuffer[(l.outputGetIndex + l.outputNumChars) % lineOutBufSize] = b,
              !.outputNumChars = @ + 1]

\* iface.flush() of a blocking write: the host may have taken bytes, leaving
\* room for r bytes if that is more than before.
IfaceFlush(st, block, r) ==
    IF block THEN [st EXCEPT !.u.room = Max(@, r)] ELSE st

\* Variant of MayBuffer that keeps no slots in reserve.
MayBufferNoReserve(l, b, block) ==
    l.outputNumChars < lineOutBufSize

\* Line::Write: the test that lets the character into the output buffer.
MayBuffer(l, b, block) ==
    \/ l.outputNumChars + 2 < lineOutBufSize
    \/ (l.outputNumChars < lineOutBufSize /\ (block \/ b = "nl"))

\* Variant of WriteAttempt in which a blocking write gives up like a
\* non-blocking one.
WriteAttemptGivesUp(st, b, block) ==
    IF st.l.outputNumChars = 0 /\ st.u.room # 0
    THEN [l |-> st.l, u |-> IfaceWrite(st.u, b), outcome |-> "direct"]
    ELSE IF MayBuffer(st.l, b, block)
    THEN [l |-> PutOutBuffer(st.l, b), u |-> st.u, outcome |-> "buffered"]
    ELSE IF TRUE
    THEN IF st.l.outputNumChars + 2 = lineOutBufSize
         THEN [l |-> [PutOutBuffer(PutOutBuffer(st.l, "dot"), "nl")
                        EXCEPT !.ignoringOutputLine = TRUE],
               u |-> st.u, outcome |-> "marked"]
         ELSE [l |-> [st.l EXCEPT !.ignoringOutputLine = TRUE], u |-> st.u,
               outcome |-> "dropped"]
    ELSE [l |-> st.l, u |-> st.u, outcome |-> "again"]

\* Line::Write: one pass through the body of the for loop after
\* TryFlushOutput and flush, on the pair st; the result has the outcome
\* "direct", "buffered", "marked" (".\n" appended, line ignored), "dropped"
\* (line ignored, nothing appended) or "again" (the loop goes round).
WriteAttempt(st, b, block) ==
    IF st.l.outputNumChars = 0 /\ st.u.room # 0
    THEN [l |-> st.l, u |-> IfaceWrite(st.u, b), outcome |-> "direct"]
    ELSE IF MayBuffer(st.l, b, block)
    THEN [l |-> PutOutBuffer(st.l, b), u |-> st.u, outcome |-> "buffered"]
    ELSE IF ~block
    THEN IF st.l.outputNumChars + 2 = lineOutBufSize
         THEN [l |-> [PutOutBuffer(PutOutBuffer(st.l, "dot"), "nl")
                        EXCEPT !.ignoringOutputLine = TRUE],
               u |-> st.u, outcome |-> "marked"]
         ELSE [l |-> [st.l EXCEPT !.ignoringOutputLine = TRUE], u |-> st.u,
               outcome |-> "dropped"]
    ELSE [l |-> st.l, u |-> st.u, outcome |-> "again"]

\* Line::Write, before the test of ignoringOutputLine: outputColumn follows
\* the character and a blocking write clears ignoringOutputLine.
WriteEntry(l, b, block) ==
    [l EXCEPT !.outputColumn = IF b = "nl" THEN 0 ELSE @ + 1,
              !.ignoringOutputLine = IF block THEN FALSE ELSE @]

\* Line::Write, the for loop and what follows it, on the pair s0; r is the
\* room the interface has after the flush of a blocking write.  A blocking
\* write that finds the buffer full goes round the loop; the second pass,
\* after TryFlushOutput has moved bytes out, finds room in the buffer.  The
\* outcome is "again" when the interface takes nothing: the loop keeps
\* turning.
WriteLoop(s0, b, block, r) ==
    LET s1 == IfaceFlush(TryFlushOutput(s0), block, r)
        a1 == WriteAttempt(s1, b, block)
        a2 == IF a1.outcome = "again"
              THEN WriteAttempt(TryFlushOutput(s1), b, block)
              ELSE a1
        s2 == TryFlushOutput([l |-> a2.l, u |-> a2.u])
    IN  [l |-> s2.l, u |-> s2.u, outcome |-> a2.outcome]

\* Line::Write(b, block) on the pair st.
WriteResult(st, b, block, r) ==
    LET l0 == WriteEntry(st.l, b, block)
        s0 == [l |-> l0, u |-> st.u]
    IN  IF l0.ignoringOutputLine
        THEN LET s1 == TryFlushOutput([s0 EXCEPT !.l.ignoringOutputLine = (b # "nl")])
             IN  [l |-> s1.l, u |-> s1.u, outcome |-> "discarded"]
        ELSE WriteLoop(s0, b, block, r)

\* Free slots of the output buffer at the point where Line::Write decides
\* what to do with its character: after TryFlushOutput.
FreeAtDecision(st) == lineOutBufSize - TryFlushOutput(st).l.outputNumChars

\* History of the current output line after a Write with the given outcome.
\* The line ends when a newline has been passed to Write.
LineHistAfter(b, block, outcome, free) ==
    LET taken == outcome \in { "direct", "buffered" }
    IN  [writes |-> lineHist.writes + 1,
         accepted |-> IF b = "nl" THEN 0
                      ELSE IF taken THEN lineHist.accepted + 1 ELSE lineHist.accepted,
         discarded |-> b # "nl" /\ (lineHist.discarded \/ ~taken),
         marked |-> b # "nl" /\ (lineHist.marked \/ outcome = "marked"),
         blockSince |-> b # "nl" /\ outcome # "marked" /\ (lineHist.blockSince \/ block),
         outcome |-> outcome, b |-> b, block |-> block, free |-> free,
         pending |-> "none", waited |-> lineHist.pending # "none"]

\* The main loop calls Line::Write(b, block).  A blocking write that finds
\* the buffer full and the interface taking nothing stays in its loop: the
\* character is pending and the main loop does nothing else until
\* WriteResume.
Write(b, block, r) ==
    /\ lineHist.writes < MaxWrites
    /\ lineHist.pending = "none"
    /\ block \/ r = 0
    /\ LET res == WriteResult([l |-> line, u |-> usb], b, block, r)
       IN  IF res.outcome = "again"
           THEN /\ line' = WriteEntry(line, b, block)
                /\ usb' = usb
                /\ lineHist' = [lineHist EXCEPT !.pending = b]
           ELSE /\ line' = res.l
                /\ usb' = res.u
                /\ lineHist' = LineHistAfter(b, block, res.outcome,
                                             FreeAtDecision([l |-> line, u |-> usb]))
    /\ UNCHANGED << platformVars, filterVars, timerVars, histVars, loopVars,
                    fileVars, lineInVars >>

\* The loop of a pending blocking Line::Write finds that the interface takes
\* bytes again, and the write returns.
WriteResume ==
    /\ lineHist.pending # "none"
    /\ usb.room # 0
    /\ LET res == WriteLoop([l |-> line, u |-> usb], lineHist.pending, TRUE, 0)
       IN  /\ line' = res.l
           /\ usb' = res.u
           /\ lineHist' = LineHistAfter(lineHist.pending, TRUE, res.outcome,
                                        FreeAtDecision([l |-> line, u |-> usb]))
    /\ UNCHANGED << platformVars, filterVars, timerVars, histVars, loopVars,
                    fileVars, lineInVars >>

\* The host reads from the port: the interface has room for one more byte.
UsbDrain ==
    /\ usb.room < MaxRoom
    /\ usb' = [usb EXCEPT !.room = @ + 1]
    /\ UNCHANGED << line, lineHist >>
    /\ UNCHANGED << platformVars, filterVars, timerVars, histVars, loopVars,
                    fileVars, lineInVars >>

\* Line::TryFlushOutput called on its own (from Line::Spin).
LineTryFlushOutput ==
    /\ lineHist.pending = "none"
    /\ line.outputNumChars # 0 /\ usb.room # 0
    /\ LET st == TryFlushOutput([l |-> line, u |-> usb])
       IN  line' = st.l /\ usb' = st.u
    /\ UNCHANGED lineHist
    /\ UNCHANGED << platformVars, filterVars, timerVars, histVars, loopVars,
                    fileVars, lineInVars >>

\* The port is set up (Line::Init) and the host is not reading yet.
LineSpecInit ==
    /\ Init
    /\ flash = ErasedFlash

LineNext ==
    \/ \E b \in LineChars, block \in BOOLEAN, r \in 0 .. MaxRoom : Write(b, block, r)
    \/ WriteResume
    \/ UsbDrain
    \/ LineTryFlushOutput

LineSpec == LineSpecInit /\ [][LineNext]_vars

\* The host keeps reading from the port, and a loop that can go on does.
LineFairSpec == LineSpec /\ WF_vars(UsbDrain) /\ WF_vars(WriteResume)

\* ------------------------------------------------------------- Line input

\* Calls on the Line, input and output side together, in one run of the
\* specification of both sides.
MaxLineOps ==
    6

\* The budget of calls of that specification is not used up.
LineOpsLeft == lineHist.writes + lineInHist.ops < MaxLineOps

\* Most bytes the interface holds for reading.
MaxAvail ==
    2

\* Bytes the host sends.
HostChars == { "g" }

\* Line::Spin: the fill level it reads up to, without the limit of the
\* buffer length.
SpinTargetUncapped(num, avail) == avail + num

\* Line::Spin: the fill level it reads up to.
SpinTarget(num, avail) ==
    IF avail + num > lineInBufsize THEN lineInBufsize ELSE avail + num

\* Line::Spin, the while loop: bytes are read from the interface (the
\* sequence av) into the input side li until the fill level is target.
RECURSIVE SpinRead(_, _, _)
SpinRead(li, av, target) ==
    IF li.inputNumChars < target /\ av # << >>
    THEN SpinRead([li EXCEPT
                      !.inBuffer[(li.inputGetIndex + li.inputNumChars) % lineInBufsize]
                          = Head(av),
                      !.inputNumChars = @ + 1],
                  Tail(av), target)
    ELSE [li |-> li, av |-> av]

\* Line::Spin, the input part.
SpinInput(li, av) ==
    IF li.inputNumChars <= lineInBufsize \div 2
    THEN SpinRead(li, av, SpinTarget(li.inputNumChars, Len(av)))
    ELSE [li |-> li, av |-> av]

\* Line::Read(b): the input side afterwards and the value returned.
ReadOf(li) ==
    IF li.inputNumChars = 0 THEN [li |-> li, result |-> 0]
    ELSE [li |-> [li EXCEPT !.inputGetIndex = (@ + 1) % lineInBufsize,
                            !.inputNumChars = @ - 1],
          result |-> 1]

\* The host sends a byte to the port.
HostSend(c) ==
    /\ Len(usbIn) < MaxAvail
    /\ usbIn' = Append(usbIn, c)
    /\ UNCHANGED << lineIn, lineInHist >>
    /\ UNCHANGED << platformVars, filterVars, timerVars, histVars, lineVars, loopVars,
                    fileVars >>

\* Line::Spin, called from the main loop: the input part, then
\* TryFlushOutput.
Spin ==
    /\ LineOpsLeft
    /\ lineHist.pending = "none"
    /\ LET in == SpinInput(lineIn, usbIn)
           st == TryFlushOutput([l |-> line, u |-> usb])
       IN  /\ lineIn' = in.li
           /\ usbIn' = in.av
           /\ lineInHist' = LineInCall(lineInHist.ops + 1, "Spin", -1,
                                       Len(usbIn) - Len(in.av))
           /\ line' = st.l
           /\ usb' = st.u
    /\ UNCHANGED lineHist
    /\ UNCHANGED << platformVars, filterVars, timerVars, histVars, loopVars, fileVars >>

\* Line::Read(b), called from the main loop.
Read ==
    /\ LineOpsLeft
    /\ lineHist.pending = "none"
    /\ lineIn' = ReadOf(lineIn).li
    /\ lineInHist' = LineInCall(lineInHist.ops + 1, "Read", ReadOf(lineIn).result, 0)
    /\ UNCHANGED usbIn
    /\ UNCHANGED << platformVars, filterVars, timerVars, histVars, lineVars, loopVars,
                    fileVars >>

\* Line::Init called again: the indices, counts and flags of both sides are
\* reset; the buffers keep their bytes.
LineReInit ==
    /\ LineOpsLeft
    /\ lineHist.pending = "none"
    /\ lineIn' = [lineIn EXCEPT !.inputGetIndex = 0, !.inputNumChars = 0]
    /\ line' = [line EXCEPT !.outputGetIndex = 0, !.outputNumChars = 0,
                            !.ignoringOutputLine = FALSE, !.inWrite = 0,
                            !.outputColumn = 0]
    /\ lineHist' = [lineHist EXCEPT !.accepted = 0, !.discarded = FALSE,
                                    !.marked = FALSE, !.blockSince = FALSE,
                                    !.outcome = "none"]
    /\ lineInHist' = LineInCall(lineInHist.ops + 1, "Init", -1, 0)
    /\ UNCHANGED << usb, usbIn >>
    /\ UNCHANGED << platformVars, filterVars, timerVars, histVars, loopVars, fileVars >>

\* Line::Write(b, block) within the budget of calls.
IoWrite(b, block, r) == LineOpsLeft /\ Write(b, block, r)

LineIoNext ==
    \/ \E b \in LineChars, block \in BOOLEAN, r \in 0 .. MaxRoom : IoWrite(b, block, r)
    \/ WriteResume
    \/ UsbDrain
    \/ \E c \in HostChars : HostSend(c)
    \/ Spin
    \/ Read
    \/ LineReInit

LineIoSpec == LineSpecInit /\ [][LineIoNext]_vars

\* ==================================================================== claims

ErrorBadTemp == "ErrorBadTemp"

\* The last step was a Tick in state 1 or 3 that fed heater h's filter.
TickProcessed(h) == lastOp.op = "Tick" /\ lastOp.heater = h

\* C1 -- Overheat interlock: when a Tick has processed heater h's channel and
\* h's filter is then valid with a sum below thermistorOverheatSums[h], that
\* same Tick has left heater h's output at zero and ErrorBadTemp set.
C1_OverheatInterlock ==
    \A h \in Heaters :
        (TickProcessed(h) /\ IsValid(thermistorFilters[h])
            /\ GetSum(thermistorFilters[h]) < thermistorOverheatSums[h])
        => (HeaterOff(heatPinValue, h) /\ ErrorBadTemp \in errorCodeBits)

\* A Tick has just found heater h over temperature while h's output, which
\* the main loop had switched on, was on, and has taken the fault branch.
C1_Witness ==
    \E h \in Heaters :
        /\ TickProcessed(h) /\ IsValid(thermistorFilters[h])
        /\ GetSum(thermistorFilters[h]) < thermistorOverheatSums[h]
        /\ lastOp.forced
        /\ lastOp.wasOn

\* C2 (as claimed) -- a thermistor fault that lasts is detected within one
\* multiplexing cycle: once heater h's input has been in the fault range for
\* 2*HEATERS ticks, the tick driver has forced h off and raised the flag.
C2_DetectedWithinOneCycle ==
    \A h \in Heaters :
        faultAge[h] >= 2 * HEATERS => (tripped[h] /\ ErrorBadTemp \in errorCodeBits)

\* C2 (amended) -- a thermistor fault that stays on one side (over temperature
\* or disconnected) is detected within numThermistorReadingsAveraged
\* multiplexing cycles plus one tick: after 2*HEATERS*N + 1 ticks in the
\* fault range the tick driver has forced h off and raised the flag.
C2_DetectedWithinFilterLength ==
    \A h \in Heaters :
        faultAge[h] >= 2 * HEATERS * numThermistorReadingsAveraged + 1
        => (tripped[h] /\ ErrorBadTemp \in errorCodeBits)

\* A fault has lasted the full detection time and the interlock has fired.
C2_Witness ==
    \E h \in Heaters :
        /\ faultAge[h] >= 2 * HEATERS * numThermistorReadingsAveraged + 1
        /\ tripped[h]
        /\ ErrorBadTemp \in errorCodeBits

\* C3 -- The fault flag is sticky: no Tick clears ErrorBadTemp once it is set.
C3_FaultFlagSticky ==
    [][(ErrorBadTemp \in errorCodeBits /\ lastOp'.op = "Tick")
        => ErrorBadTemp \in errorCodeBits']_vars

\* With the flag set, a Tick has processed a heater whose valid filter sum is
\* inside the permitted range.
C3_Witness ==
    \E h \in Heaters :
        /\ ErrorBadTemp \in errorCodeBits
        /\ TickProcessed(h) /\ IsValid(thermistorFilters[h])
        /\ GetSum(thermistorFilters[h]) >= thermistorOverheatSums[h]
        /\ GetSum(thermistorFilters[h]) < adDisconnectedReal * numThermistorReadingsAveraged
        /\ ~lastOp.forced

\* C4 -- Interlock comparator: a Tick that processes heater h with a valid
\* filter forces the heater off and raises the flag exactly when
\* sum < thermistorOverheatSums[h] or sum >= adDisconnectedReal * N; otherwise
\* it changes neither the heater outputs nor errorCodeBits.
C4_InterlockComparator ==
    [][\A h \in Heaters :
        (lastOp'.op = "Tick" /\ lastOp'.heater = h /\ IsValid(thermistorFilters'[h]))
        => IF \/ GetSum(thermistorFilters'[h]) < thermistorOverheatSums[h]
              \/ GetSum(thermistorFilters'[h]) >= adDisconnectedReal * numThermistorReadingsAveraged
           THEN /\ lastOp'.forced
                /\ HeaterOff(heatPinValue', h)
                /\ ErrorBadTemp \in errorCodeBits'
           ELSE /\ ~lastOp'.forced
                /\ heatPinValue' = heatPinValue
                /\ errorCodeBits' = errorCodeBits]_vars

\* A Tick has processed a heater that is on, with a valid sum exactly equal to
\* the overheat threshold, and has not faulted.
C4_Witness ==
    \E h \in Heaters :
        /\ TickProcessed(h) /\ IsValid(thermistorFilters[h])
        /\ GetSum(thermistorFilters[h]) = thermistorOverheatSums[h]
        /\ ~lastOp.forced
        /\ ~HeaterOff(heatPinValue, h)
        /\ ErrorBadTemp \notin errorCodeBits

\* A Tick has processed a heater with a valid sum exactly equal to the
\* disconnect threshold, and has faulted.
C4_WitnessDisconnect ==
    \E h \in Heaters :
        /\ TickProcessed(h) /\ IsValid(thermistorFilters[h])
        /\ GetSum(thermistorFilters[h]) = adDisconnectedReal * numThermistorReadingsAveraged
        /\ lastOp.forced

\* C5 (as claimed) -- the overheat threshold the tick interlock uses for
\* heater h is the ADC-sum equivalent of the bad-high-temperature limit under
\* h's current calibration, also after SetPidParameters has changed it.
C5_ThresholdFollowsCalibration ==
    active => \A h \in Heaters : thermistorOverheatSums[h] = OverheatSum(nvData.pidParams[h])

\* C6 (as claimed) -- WriteNvData never runs in interrupt context.
C6_NoNvWriteInInterrupt ==
    nvWriteCtx # "isr"

\* C7 (as claimed) -- once the tick driver is running, every step that
\* changes a thermistor filter or a Z probe filter is a Tick.
C7_OnlyTickWritesFilters ==
    [][(active /\ active'
          /\ << thermistorFilters, zProbeOnFilter, zProbeOffFilter >>'
               # << thermistorFilters, zProbeOnFilter, zProbeOffFilter >>)
        => lastOp'.op = "Tick"]_vars

RECURSIVE SumLast(_, _)
\* Sum of the last k entries of the sequence q.
SumLast(q, k) ==
    IF k = 0 \/ q = << >> THEN 0
    ELSE q[Len(q)] + SumLast(SubSeq(q, 1, Len(q) - 1), k - 1)

\* C8 -- Sum invariant: after any sequence of Init and ProcessReading calls
\* GetSum() is the exact total of the values held in the buffer, pre-seeded
\* values that have not yet been overwritten included.
C8_SumIsBufferTotal ==
    GetSum(flt) = BufferTotal(flt)

\* The buffer holds a reading next to a different, not yet overwritten seed.
C8_Witness ==
    /\ Len(fltLog) >= 1 /\ Len(fltLog) < flt.size
    /\ flt.readings[0] # flt.readings[flt.size - 1]
    /\ GetSum(flt) > 0

\* C9 -- Once N or more readings have been processed since the last Init,
\* GetSum() is the sum of exactly the most recent N of them.
C9_SumOfMostRecent ==
    Len(fltLog) >= flt.size => GetSum(flt) = SumLast(fltLog, flt.size)

\* The cursor has wrapped and a non-zero reading has dropped out of the sum.
C9_Witness ==
    /\ flt.size >= 2
    /\ Len(fltLog) > flt.size
    /\ fltLog[1] > 0
    /\ GetSum(flt) < SumLast(fltLog, Len(fltLog))

\* C10 -- Validity latch: IsValid() is false after Init and after each of the
\* first N-1 readings, true from the N-th reading on, until the next Init.
C10_ValidityLatch ==
    IsValid(flt) <=> Len(fltLog) >= flt.size

\* A filter that has stayed valid over readings beyond the N-th.
C10_Witness ==
    /\ flt.size >= 2
    /\ IsValid(flt)
    /\ Len(fltLog) > flt.size

\* C11 -- Platform::ZProbe() returns 0 in every state in which zProbeOnFilter
\* or zProbeOffFilter is not valid, whatever the probe type and the sums.
C11_ZeroUnlessBothValid ==
    (~IsValid(zProbeOnFilter) \/ ~IsValid(zProbeOffFilter)) => ZProbe = 0

\* With an analog probe type selected, exactly one of the two filters is
\* valid and the sums are such that the scaling alone would give a non-zero
\* reading.
C11_Witness ==
    /\ active
    /\ nvData.zProbeType \in 1 .. 3
    /\ IsValid(zProbeOnFilter) # IsValid(zProbeOffFilter)
    /\ ZProbeSwitch(nvData.zProbeType, GetSum(zProbeOnFilter), GetSum(zProbeOffFilter)) # 0

\* C12 -- A SetZProbeType call that changes the probe type leaves both probe
\* filters invalid and ZProbe() at 0, and ZProbe() stays 0 in every state in
\* which the tick driver has fed the on-filter or the off-filter fewer than
\* numZProbeReadingsAveraged readings since.
C12_ZeroUntilRefilled ==
    /\ [][(lastOp'.op = "SetZProbeType" /\ nvData'.zProbeType # nvData.zProbeType)
            => (~IsValid(zProbeOnFilter') /\ ~IsValid(zProbeOffFilter') /\ ZProbe' = 0)]_vars
    /\ []((zProbeOnFilter.count < numZProbeReadingsAveraged
             \/ zProbeOffFilter.count < numZProbeReadingsAveraged) => ZProbe = 0)

\* The probe type has been changed to 2, the tick driver has since fed the
\* on-filter a full cycle of non-zero readings and the off-filter one reading
\* fewer, and ZProbe() still reads 0.
C12_Witness ==
    /\ nvData.zProbeType = 2
    /\ nvWriteCtx = "main"
    /\ lastOp.op = "Tick"
    /\ IsValid(zProbeOnFilter)
    /\ GetSum(zProbeOnFilter) >= 4 * numZProbeReadingsAveraged
    /\ zProbeOffFilter.count = numZProbeReadingsAveraged - 1
    /\ ZProbe = 0

C14_UnmodulatedScaling ==
    (IsValid(zProbeOnFilter) /\ IsValid(zProbeOffFilter))
    => LET a == GetSum(zProbeOnFilter)
           b == GetSum(zProbeOffFilter)
       IN  /\ nvData.zProbeType \in {1, 3}
                => ZProbe = (a + b) \div (8 * numZProbeReadingsAveraged)
           /\ ZProbeSwitch(1, a, b) = ZProbeSwitch(3, a, b)

\* A type 3 probe with valid filters, unequal sums and a non-zero reading.
C14_Witness ==
    /\ nvData.zProbeType = 3
    /\ IsValid(zProbeOnFilter) /\ IsValid(zProbeOffFilter)
    /\ GetSum(zProbeOnFilter) # GetSum(zProbeOffFilter)
    /\ ZProbe > 0

\* The setters of the configuration record.
ConfigSetters ==
    { "SetZProbeType", "SetZProbeAxes", "SetZProbeParameters", "SetPidParameters",
      "SetIPAddress", "SetGateWay", "SetNetMask", "SetEmulating" }

\* C15 (as claimed) -- Configuration idempotence: when a setter is called a
\* second time in a row with the value the record already holds from the
\* first call, the second call does not write the backing store; a reset that
\* records the cause the stored record already holds does not write either.
C15_SettersIdempotent ==
    [][/\ (lastOp'.op \in ConfigSetters /\ lastOp.op = lastOp'.op
             /\ lastOp.heater = lastOp'.heater /\ events' = events + 1 /\ nvData' = nvData)
          => nvWrites' = 0
       /\ (lastOp'.op = "SoftwareReset" /\ flash' = flash) => nvWrites' = 0]_vars

\* C16 -- Load with a mismatching magic value: Platform::Init sets every field
\* of the record to its compiled-in default (probe type 0, the default
\* calibration of every heater, reset reason 0, default addresses, axes and
\* probe parameters), sets the magic value, and writes the block to flash
\* exactly once.
C16_DefaultsOnBadMagic ==
    [][(lastOp'.op = "Init" /\ flash.magic # "magicValue")
        => /\ nvData'.magic = "magicValue"
           /\ nvData'.zProbeType = 0
           /\ \A h \in Heaters : nvData'.pidParams[h] = DefaultPid
           /\ nvData'.resetReason = {}
           /\ nvData'.compatibility = "me"
           /\ nvData'.ipAddress = IP_ADDRESS /\ nvData'.netMask = NET_MASK
           /\ nvData'.gateWay = GATE_WAY /\ nvData'.macAddress = MAC_ADDRESS
           /\ nvData'.zProbeAxes = Z_PROBE_AXES
           /\ nvData'.switchZProbeParameters = ZProbeParametersInit(0)
           /\ nvData'.irZProbeParameters = ZProbeParametersInit(Z_PROBE_STOP_HEIGHT)
           /\ nvData'.alternateZProbeParameters = ZProbeParametersInit(Z_PROBE_STOP_HEIGHT)
           /\ flash' = nvData'
           /\ nvWrites' = 1]_vars

\* Platform::Init has just run on a flash block without the magic value: it
\* has written the block once and the probe is the switch.
C16_Witness ==
    /\ lastOp.op = "Init"
    /\ nvWrites = 1
    /\ nvData.zProbeType = 0
    /\ flash = nvData

\* C17 -- Load with a matching magic value: Platform::Init takes the record
\* over verbatim, changes no field of it and does not write to flash.
C17_VerbatimOnGoodMagic ==
    [][(lastOp'.op = "Init" /\ flash.magic = "magicValue")
        => (nvData' = flash /\ flash' = flash /\ nvWrites' = 0)]_vars

\* Platform::Init has just loaded a valid record that differs from the
\* defaults, without writing.
C17_Witness ==
    /\ lastOp.op = "Init"
    /\ nvWrites = 0
    /\ nvData = flash
    /\ nvData.zProbeType # 0
    /\ nvData.resetReason # {}
    /\ nvData.pidParams[0] # DefaultPid

\* The last step was a Tick taken in one of the tick states of the set from.
TickFrom(from) == lastOp'.op = "Tick" /\ tickState \in from

\* C18 -- Tick state machine: tickState is always in 0..4; each Tick makes
\* exactly one of the transitions 0->1, 1->2, 2->3, 3->4, 4->1; a Tick in
\* state 4 feeds the off-filter and then does what a Tick in state 0 does
\* (start the conversion of the current heater's channel, drive the
\* modulation pin high for a type 2 probe, go to state 1); Ticks in states 1
\* and 3 do the same thing (feed the current heater's filter, start the probe
\* conversion, run the interlock, advance the heater); and while the tick
\* driver stays enabled, state 0 is not entered again once left.
C18_TickStateMachine ==
    /\ [](tickState \in 0 .. 4)
    /\ [][TickFrom(0 .. 4)
            => << tickState, tickState' >>
                  \in { << 0, 1 >>, << 1, 2 >>, << 2, 3 >>, << 3, 4 >>, << 4, 1 >> }]_vars
    /\ [][TickFrom({0, 4})
            => /\ heaterAdcChannels[currentHeater] \in adcEnabled'
               /\ adcData'[heaterAdcChannels[currentHeater]] = analogIn[heaterAdcChannels[currentHeater]]
               /\ zProbeModHigh' = (nvData.zProbeType = 2 \/ zProbeModHigh)
               /\ tickState' = 1
               /\ UNCHANGED << thermistorFilters, zProbeOnFilter, currentHeater, heatPinValue,
                               errorCodeBits >>
               /\ IF tickState = 4
                  THEN /\ zProbeOffFilter'.count = Min(zProbeOffFilter.count + 1, numZProbeReadingsAveraged)
                       /\ zProbeOffFilter'.readings[zProbeOffFilter.index] = adcData[zProbeAdcChannel]
                       /\ zProbeAdcChannel \notin adcEnabled'
                  ELSE UNCHANGED zProbeOffFilter]_vars
    /\ [][TickFrom({1, 3})
            => /\ lastOp'.heater = currentHeater
               /\ thermistorFilters'[currentHeater].readings[thermistorFilters[currentHeater].index]
                     = adcData[heaterAdcChannels[currentHeater]]
               /\ \A h \in Heaters \ {currentHeater} : thermistorFilters'[h] = thermistorFilters[h]
               /\ zProbeAdcChannel \in adcEnabled'
               /\ heaterAdcChannels[currentHeater] \notin adcEnabled'
               /\ lastOp'.forced
                     = (IsValid(thermistorFilters'[currentHeater])
                          /\ InterlockTrips(GetSum(thermistorFilters'[currentHeater]), currentHeater))
               /\ currentHeater' = (currentHeater + 1) % HEATERS
               /\ tickState' = tickState + 1
               /\ UNCHANGED << zProbeOnFilter, zProbeOffFilter, zProbeModHigh >>]_vars
    /\ [][(active /\ active' /\ tickState # 0) => tickState' # 0]_vars

\* The tick driver has gone round the cycle: a Tick in state 4 has fed the
\* off-filter of a type 2 probe and returned to state 1 a second time.
C18_Witness ==
    /\ lastOp.op = "Tick"
    /\ tickState = 1
    /\ zProbeOffFilter.count >= 2
    /\ nvData.zProbeType = 2
    /\ zProbeModHigh
    /\ heaterAdcChannels[currentHeater] \in adcEnabled

\* C19 -- SetInterrupt(s) with s <= 0 reports an error and programs the timer
\* with exactly the period of s = STANDBY_INTERRUPT_RATE (RC and RA = RC / 2);
\* the timer is started and its interrupt enabled, and the period in the
\* timer registers is positive.
C19_NonPositivePeriodReplaced ==
    (lastOp.op = "SetInterrupt" /\ timer.s <= 0)
    => /\ timer.error
       /\ timer.rc = ((STANDBY_INTERRUPT_RATE \div 10) * 84) \div 128
       /\ timer.ra = timer.rc \div 2
       /\ timer.rc = SetInterruptResult(STANDBY_INTERRUPT_RATE).rc
       /\ timer.ra = SetInterruptResult(STANDBY_INTERRUPT_RATE).ra
       /\ timer.rc > 0
       /\ timer.started
       /\ timer.irq

\* SetInterrupt has just been called with a negative period while the timer
\* was running.
C19_Witness ==
    /\ lastOp.op = "SetInterrupt"
    /\ timer.s < 0
    /\ timer.error
    /\ timer.started
    /\ timer.rc = 131

\* C20 -- Disconnect sentinel: for every heater and every calibration,
\* whatever the signs of adcLowOffset and adcHighOffset, GetTemperature
\* returns ABS_ZERO when the raw reading is at or above adDisconnectedVirtual.
C20_DisconnectSentinel ==
    (lastOp.op = "GetTemperature" /\ lastOp.rawTemp >= adDisconnectedVirtual)
    => lastOp.result = "ABS_ZERO"

\* GetTemperature has returned ABS_ZERO for a reading exactly at the
\* disconnect threshold under a calibration with a negative high offset of
\* more than one count and a non-zero low offset.
C20_Witness ==
    /\ lastOp.op = "GetTemperature"
    /\ lastOp.rawTemp = adDisconnectedVirtual
    /\ nvData.pidParams[lastOp.heater].adcHighOffset < 0 - 2
    /\ nvData.pidParams[lastOp.heater].adcLowOffset # 0
    /\ lastOp.result = "ABS_ZERO"

\* C21 -- Short-circuit sentinel: when GetTemperature gets past the
\* disconnect test and the resistance it computes is at or below R_inf, it
\* returns 2000 without taking the logarithm; it takes the logarithm only of
\* a ratio resistance / R_inf above 1, and every result is the disconnected
\* sentinel, the high sentinel or a value of the Beta equation.
C21_ShortCircuitSentinel ==
    lastOp.op = "GetTemperature"
    => LET p == nvData.pidParams[lastOp.heater]
           r2 == 2 * lastOp.rawTemp + 1 - p.adcLowOffset
           d2 == 2 * (adRangeVirtual + 1) + p.adcHighOffset - p.adcLowOffset
           atMost == \/ d2 - r2 > 0 /\ r2 * p.thermistorSeriesR <= p.thermistorInfR * (d2 - r2)
                     \/ d2 - r2 < 0 /\ r2 * p.thermistorSeriesR >= p.thermistorInfR * (d2 - r2)
       IN  /\ (lastOp.branch # "disconnected" /\ atMost)
                => (lastOp.result = "2000" /\ lastOp.branch = "short")
           /\ (lastOp.branch = "log" /\ d2 - r2 # 0) => ~atMost
           /\ lastOp.result \in { "ABS_ZERO", "2000", "temperature" }

\* GetTemperature has returned 2000 for a reading below the disconnect
\* threshold whose resistance is exactly R_inf.
C21_Witness ==
    /\ lastOp.op = "GetTemperature"
    /\ lastOp.branch = "short"
    /\ lastOp.result = "2000"
    /\ ResistanceDen(lastOp.rawTemp, nvData.pidParams[lastOp.heater]) > 0
    /\ ResistanceNum(lastOp.rawTemp, nvData.pidParams[lastOp.heater])
          = nvData.pidParams[lastOp.heater].thermistorInfR
              * ResistanceDen(lastOp.rawTemp, nvData.pidParams[lastOp.heater])

\* C22 -- Modulation phase for probe type 2: every sample the tick driver
\* feeds to zProbeOnFilter (state 2) while the type is 2 comes from a probe
\* conversion started with the modulation output high, and every sample it
\* feeds to zProbeOffFilter (state 4) from one started with the output low,
\* also when SetZProbeType has been called between two ticks.
C22_ModulationPhase ==
    [][ /\ (TickFrom({2}) /\ nvData.zProbeType = 2) => convModHigh
        /\ (TickFrom({4}) /\ nvData.zProbeType = 2) => ~convModHigh ]_vars

\* C23 -- Consistent probe duty cycle: in every window of 4 consecutive
\* ticks after the first tick the on-filter and the off-filter each get
\* exactly one sample, and exactly one heater sample is processed between an
\* on-sample and the next off-sample and between an off-sample and the next
\* on-sample.
C23_ProbeDutyCycle ==
    (Len(tickLog) = TickWindow /\ \A i \in 1 .. TickWindow : tickLog[i] # "none")
    => /\ Cardinality({ i \in 1 .. TickWindow : tickLog[i] = "on" }) = 1
       /\ Cardinality({ i \in 1 .. TickWindow : tickLog[i] = "off" }) = 1
       /\ \A i \in 1 .. TickWindow - 1 :
             tickLog[i] \in { "on", "off" } => tickLog[i + 1] = "heater"
       /\ \A i \in 1 .. TickWindow - 2 :
             /\ tickLog[i] = "on" => tickLog[i + 2] = "off"
             /\ tickLog[i] = "off" => tickLog[i + 2] = "on"

\* Four ticks after the first have fed: on-filter, a heater, off-filter, a
\* heater.
C23_Witness ==
    tickLog = << "on", "heater", "off", "heater" >>

\* C24 -- SetZProbeType called with the current type changes nothing
\* observable: the record, the backing store, both probe filters, the value
\* of ZProbe() and the modulation output are the same after the call.
C24_SetZProbeTypeIdempotent ==
    [][ (lastOp'.op = "SetZProbeType" /\ nvData'.zProbeType = nvData.zProbeType)
        => /\ nvData' = nvData
           /\ flash' = flash
           /\ zProbeOnFilter' = zProbeOnFilter
           /\ zProbeOffFilter' = zProbeOffFilter
           /\ ZProbe' = ZProbe
           /\ zProbeModHigh' = zProbeModHigh ]_vars

\* C25 -- (as stated) after SetZProbeType has changed the probe type to 1 or
\* 2, the modulation output is at the level the tick driver sets in state 2.
C25_IdleAfterTypeChange ==
    [][ ( /\ lastOp'.op = "SetZProbeType"
          /\ nvData'.zProbeType # nvData.zProbeType
          /\ nvData'.zProbeType \in {1, 2} )
        => zProbeModHigh' = ModulationIdle ]_vars

\* C25 -- (amended) after SetZProbeType has changed the probe type to 1 or
\* 2, the modulation output is at the level the tick driver sets in states 4
\* and 0, when it turns the emitter of a modulated probe on.
C25_ActiveAfterTypeChange ==
    [][ ( /\ lastOp'.op = "SetZProbeType"
          /\ nvData'.zProbeType # nvData.zProbeType
          /\ nvData'.zProbeType \in {1, 2} )
        => zProbeModHigh' = ModulationActive ]_vars

\* SetZProbeType has just changed the type to 1 or 2 and the output is high.
C25_Witness ==
    /\ lastOp.op = "SetZProbeType"
    /\ nvWrites = 1
    /\ nvData.zProbeType \in {1, 2}
    /\ zProbeModHigh = ModulationActive

\* The calibration variant that belongs to a probe type.
ActiveVariant(type) ==
    CASE type = 0 -> "switchZProbeParameters"
      [] type \in {1, 2} -> "irZProbeParameters"
      [] type = 3 -> "alternateZProbeParameters"

\* C26 -- One calibration variant is active, selected by the probe type (0
\* switch, 1 and 2 IR, 3 alternate): SetZProbeParameters stores its argument
\* in that variant and leaves the other variants and every other field of
\* the record unchanged, and GetZProbeParameters returns that same variant.
C26_ActiveVariantOnly ==
    /\ [][ \A params \in ProbeParameterChoices :
             SetZProbeParameters(params)
             => /\ \A f \in DOMAIN nvData \ { ActiveVariant(nvData.zProbeType) } :
                      nvData'[f] = nvData[f]
                /\ nvData'[ActiveVariant(nvData.zProbeType)] = params
                /\ GetZProbeParametersOf(nvData') = [ok |-> TRUE, params |-> params] ]_vars
    /\ [](active => GetZProbeParametersOf(nvData)
                      = [ok |-> TRUE, params |-> nvData[ActiveVariant(nvData.zProbeType)]])

\* SetZProbeParameters has just written the alternate variant, which now
\* differs from the IR variant.
C26_Witness ==
    /\ lastOp.op = "SetZProbeParameters"
    /\ nvWrites = 1
    /\ nvData.zProbeType = 3
    /\ nvData.alternateZProbeParameters # nvData.irZProbeParameters
    /\ nvData.irZProbeParameters = DefaultNvData.irZProbeParameters

\* What the fault branch of Platform::Tick leaves on record about heater h,
\* besides that heater's output pin: the ErrorBadTemp bit of errorCodeBits.
\* The heater index is not part of it.
FaultIndication(h) == ErrorBadTemp \in errorCodeBits

\* C27 -- The overheat fault raised by the tick driver is recorded per
\* heater: when the interlock fires for heater h and no fault was on record
\* before, the fault indication of h is set and that of every other heater
\* is not.
C27_FaultPerHeater ==
    [][ \A h \in Heaters :
          ( /\ lastOp'.op = "Tick"
            /\ lastOp'.forced
            /\ lastOp'.heater = h
            /\ ErrorBadTemp \notin errorCodeBits )
          => /\ FaultIndication(h)'
             /\ \A j \in Heaters \ {h} : ~FaultIndication(j)' ]_vars

\* C28 -- Probe-not-ready fails toward untriggered: while a probe filter is
\* not valid, Stopped(drive) for a probe-applicable axis with probe type 1, 2
\* or 3 returns noStop, whatever trigger threshold adcValue is stored.
C28_NotReadyNoStop ==
    ( /\ lastOp.op = "Stopped"
      /\ nvData.zProbeType \in 1 .. 3
      /\ lastOp.drive < AXES
      /\ nvData.zProbeAxes[lastOp.drive]
      /\ ~(IsValid(zProbeOnFilter) /\ IsValid(zProbeOffFilter)) )
    => lastOp.result = "noStop"

\* The step is a non-blocking Line::Write.
NonBlockingWrite == lineHist'.writes = lineHist.writes + 1 /\ ~lineHist'.block

\* A non-blocking Write of a character other than newline that finds exactly
\* 2 free slots (once TryFlushOutput has moved out what the interface takes)
\* appends ".\n", sets ignoringOutputLine and returns with the buffer full.
MarkerRule ==
    ( /\ NonBlockingWrite
      /\ lineHist'.b # "nl"
      /\ ~line.ignoringOutputLine
      /\ lineHist'.free = 2 )
    => /\ lineHist'.outcome = "marked"
       /\ line'.ignoringOutputLine
       /\ line'.outputNumChars = lineOutBufSize
       /\ line'.outBuffer[(line'.outputGetIndex + lineOutBufSize - 2) % lineOutBufSize] = "dot"
       /\ line'.outBuffer[(line'.outputGetIndex + lineOutBufSize - 1) % lineOutBufSize] = "nl"

\* The last Write passed the newline that ended a line being ignored.
IgnoredLineEnded == lineHist.b = "nl" /\ lineHist.outcome = "discarded"

\* C29 -- (as stated) a non-blocking Write that finds exactly 2 free slots
\* for a character other than newline appends ".\n" and sets
\* ignoringOutputLine; every later non-blocking character is discarded until
\* a newline has been passed to Write, and after that newline characters are
\* accepted again.
C29_DiscardUntilNewline ==
    [][ /\ MarkerRule
        /\ (NonBlockingWrite /\ lineHist.marked) => lineHist'.outcome = "discarded"
        /\ (NonBlockingWrite /\ IgnoredLineEnded)
              => lineHist'.outcome \in { "direct", "buffered" } ]_vars

\* C29 -- (amended) as above, but later non-blocking characters are
\* discarded until a newline or a blocking character has been passed to
\* Write, and after the newline ignoringOutputLine is clear and a character
\* is no longer discarded for belonging to the ignored line: it is accepted
\* if the buffer has room for it, or starts a new ignored line.
C29_DiscardUntilNewlineOrBlocking ==
    [][ /\ MarkerRule
        /\ (NonBlockingWrite /\ lineHist.marked /\ ~lineHist.blockSince)
              => (lineHist'.outcome = "discarded" /\ line'.outputNumChars <= line.outputNumChars)
        /\ (NonBlockingWrite /\ IgnoredLineEnded)
              => (~line.ignoringOutputLine /\ lineHist'.outcome # "discarded") ]_vars

\* A non-blocking character has been discarded after ".\n" was appended to
\* its line, and the line is still being ignored.
C29_Witness ==
    /\ lineHist.marked
    /\ ~lineHist.blockSince
    /\ lineHist.outcome = "discarded"
    /\ lineHist.b = "a"
    /\ line.ignoringOutputLine

\* The step is a Line::Write, blocking or not.
AnyWrite == lineHist'.writes = lineHist.writes + 1

\* C30 -- Truncated output lines are always marked: when a non-blocking Write
\* starts ignoring a line with fewer than 2 free slots (so without appending
\* ".\n"), no character of that line has been written; and whenever a
\* character of a line is not written although earlier characters of the
\* line were, the line has got its ".\n".  For every interleaving of blocking
\* and non-blocking writes.
C30_TruncatedLinesMarked ==
    [][ /\ (NonBlockingWrite /\ lineHist'.outcome = "dropped" /\ lineHist'.free < 2)
              => lineHist.accepted = 0
        /\ (AnyWrite /\ lineHist'.outcome \notin { "direct", "buffered" }
              /\ lineHist.accepted > 0)
              => (lineHist.marked \/ lineHist'.outcome = "marked") ]_vars

\* The characters waiting in the output buffer of l, in the order
\* TryFlushOutput will hand them to the interface.
BufferContents(l) ==
    [i \in 1 .. l.outputNumChars |->
        l.outBuffer[(l.outputGetIndex + i - 1) % lineOutBufSize]]

\* Everything the port will have put out once the buffer has drained: the
\* bytes already handed to the interface, then the buffer.
OutputStream(l, u) == u.sent \o BufferContents(l)

\* C31 -- Line::Write with block = true never discards its character: it
\* clears ignoringOutputLine and returns only once the character has been
\* handed to the interface or stored in the output buffer, behind everything
\* written before it, and a blocking write that has to wait returns once the
\* interface accepts bytes.
C31_BlockingWriteDelivers ==
    /\ [][ (AnyWrite /\ lineHist'.block)
           => /\ lineHist'.outcome \in { "direct", "buffered" }
              /\ ~line'.ignoringOutputLine
              /\ OutputStream(line', usb') = Append(OutputStream(line, usb), lineHist'.b) ]_vars
    /\ [](lineHist.pending # "none" => ~line.ignoringOutputLine)
    /\ (lineHist.pending # "none") ~> (lineHist.pending = "none")

\* A blocking write that found the buffer full and had to wait has returned
\* with its character stored.
C31_Witness ==
    /\ lineHist.block
    /\ lineHist.waited
    /\ lineHist.outcome = "buffered"
    /\ lineHist.pending = "none"

\* C32 -- Write-through consistency of the configuration record: after
\* Platform::Init and after every setter has returned the block in flash
\* equals nvData, and a setter that changes a field of the record writes the
\* whole record.
C32_WriteThrough ==
    /\ [](active => flash = nvData)
    /\ [][ (lastOp'.op \in ConfigSetters /\ nvData' # nvData)
           => (nvWrites' >= 1 /\ flash' = nvData') ]_vars

\* SetPidParameters has just changed a heater's calibration and written the
\* record.
C32_Witness ==
    /\ lastOp.op = "SetPidParameters"
    /\ nvWrites = 1
    /\ \E h \in Heaters : nvData.pidParams[h] # DefaultPid
    /\ flash = nvData

\* C33 -- ADC request/result pairing: the channel a tick reads is the one
\* the previous tick started a conversion on and the only one enabled: in
\* states 1 and 3 the channel of the heater whose filter gets the sample, in
\* states 2 and 4 the probe channel; state 0 reads nothing; and each tick
\* after the first starts a probe conversion if the last one was a heater
\* conversion and a heater conversion if it was a probe conversion.
C33_AdcPairing ==
    [][ lastOp'.op = "Tick"
        => /\ tickState \in {1, 3}
                => /\ adcRead' = heaterAdcChannels[lastOp'.heater]
                   /\ lastOp'.heater = currentHeater
                   /\ thermistorFilters'[currentHeater]
                         = ProcessReading(thermistorFilters[currentHeater], adcData[adcStarted])
           /\ tickState \in {2, 4} => adcRead' = zProbeAdcChannel
           /\ tickState = 2 => zProbeOnFilter' = ProcessReading(zProbeOnFilter, adcData[adcStarted])
           /\ tickState = 4 => zProbeOffFilter' = ProcessReading(zProbeOffFilter, adcData[adcStarted])
           /\ tickState \in 1 .. 4 => (adcRead' = adcStarted /\ adcEnabled = {adcStarted})
           /\ tickState = 0 => (adcRead' = -1 /\ adcStarted = -1)
           /\ tickState \in 1 .. 4
                => ((adcStarted' = zProbeAdcChannel) <=> (adcStarted # zProbeAdcChannel))
           /\ adcEnabled' = {adcStarted'} ]_vars

\* The tick driver has just fed heater 1's filter from heater 1's channel.
C33_Witness ==
    /\ lastOp.op = "Tick"
    /\ lastOp.heater = 1
    /\ adcRead = heaterAdcChannels[1]
    /\ adcStarted = zProbeAdcChannel

\* C34 -- Heater round-robin: currentHeater is always in 0..HEATERS-1; a
\* tick in state 1 or 3 advances it by one modulo HEATERS and a tick in any
\* other state leaves it alone; and in every window of 2*HEATERS consecutive
\* ticks each heater is processed by exactly one tick.
C34_HeaterRoundRobin ==
    /\ [](currentHeater \in 0 .. HEATERS - 1)
    /\ [][ lastOp'.op = "Tick"
           => currentHeater' = IF tickState \in {1, 3}
                               THEN (currentHeater + 1) % HEATERS
                               ELSE currentHeater ]_vars
    /\ [](Len(heaterLog) = PassLen
          => \A h \in Heaters :
                Cardinality({ i \in 1 .. PassLen : heaterLog[i] = h }) = 1)

\* A full window of ticks that began with the tick of the last heater.
C34_Witness ==
    /\ Len(heaterLog) = PassLen
    /\ heaterLog[1] = HEATERS - 1
    /\ heaterLog[PassLen] = -1

\* The probe filter f is consistent: its running sum is the total of its
\* buffer, and it is valid only when fed samples filled it since its Init.
ProbeFilterConsistent(f, fed) ==
    /\ GetSum(f) = BufferTotal(f)
    /\ IsValid(f) => fed >= numZProbeReadingsAveraged

C36_WritePointerInBuffer ==
    /\ \A i \in Slots :
          (files[i].inUse /\ files[i].writing) => files[i].bufferPointer < FILE_BUF_LEN
    /\ ~(fileHist.overrun /\ files[fileHist.slot].writing)

\* C37 -- FileStore reference counting: inUse holds exactly when openCount
\* is at least 1 and exactly when the underlying file is open; a Close frees
\* the slot and closes the file exactly when it brings openCount to 0; and
\* Duplicate or Close on a slot not in use reports an error and changes
\* neither openCount nor inUse.
C37_ReferenceCounting ==
    /\ [](\A i \in Slots : /\ files[i].inUse <=> files[i].openCount >= 1
                           /\ files[i].inUse <=> fatOpen[i])
    /\ [][ \A i \in Slots :
             (fileHist'.op \in { "Close", "Duplicate" } /\ fileHist'.slot = i)
             => IF files[i].inUse
                THEN /\ files'[i].openCount
                          = files[i].openCount + (IF fileHist'.op = "Close" THEN -1 ELSE 1)
                     /\ fileHist'.closed <=> files'[i].openCount = 0
                     /\ ~fatOpen'[i] <=> files'[i].openCount = 0
                     /\ ~files'[i].inUse <=> files'[i].openCount = 0
                ELSE /\ fileHist'.error
                     /\ ~fileHist'.closed
                     /\ files'[i] = files[i]
                     /\ fatOpen'[i] = fatOpen[i] ]_vars

\* After at least four calls a Close has closed the file and freed its slot
\* while the other slot holds two references.
C37_Witness ==
    /\ fileHist.op = "Close"
    /\ fileHist.closed
    /\ ~files[fileHist.slot].inUse
    /\ \E i \in Slots : files[i].inUse /\ files[i].openCount = 2

\* The step hands the interface no byte out of order: what was handed over
\* stays, and the bytes still buffered follow in the order they were queued,
\* extended at the end by the sequence added.
StreamExtendedBy(added) ==
    /\ OutputStream(line', usb') = OutputStream(line, usb) \o added
    /\ \E n \in 0 .. Len(usb'.sent) : SubSeq(usb'.sent, 1, n) = usb.sent

\* A Write that wrote its character directly found the output buffer empty.
DirectOnlyWhenEmpty ==
    (AnyWrite /\ lineHist'.outcome = "direct")
    => (line'.outputNumChars = 0 /\ usb'.sent = Append(OutputStream(line, usb), lineHist'.b))

\* C38 as stated -- Line output ordering: the bytes handed to the interface
\* and those still queued are, in order, exactly the characters Write
\* accepted: a Write that accepts its character appends it to the stream,
\* and no other step adds to the stream or reorders it.
C38_StreamIsAccepted ==
    [][ /\ IF AnyWrite /\ lineHist'.outcome \in { "direct", "buffered" }
           THEN StreamExtendedBy(<< lineHist'.b >>)
           ELSE StreamExtendedBy(<< >>)
        /\ DirectOnlyWhenEmpty ]_vars

\* C38 amended -- the stream is the accepted characters in order, each once,
\* with the two marker bytes ".\n" that a truncating Write queues itself at
\* the point of truncation; a character is written directly only when the
\* output buffer is empty.
C38_StreamIsAcceptedAndMarkers ==
    [][ /\ IF AnyWrite /\ lineHist'.outcome \in { "direct", "buffered" }
           THEN StreamExtendedBy(<< lineHist'.b >>)
           ELSE IF AnyWrite /\ lineHist'.outcome = "marked"
           THEN StreamExtendedBy(<< "dot", "nl" >>)
           ELSE StreamExtendedBy(<< >>)
        /\ DirectOnlyWhenEmpty ]_vars

\* A marker has reached the stream and a later Write had its character
\* accepted behind it.
C38_Witness ==
    LET stream == OutputStream(line, usb)
    IN  /\ lineHist.outcome \in { "direct", "buffered" }
        /\ \E i \in 1 .. Len(stream) - 2 :
              /\ stream[i] = "dot"
              /\ stream[i + 1] = "nl"
              /\ Len(stream) = i + 2
              /\ stream[i + 2] = lineHist.b

\* C39 -- Line ring-buffer bounds: inputNumChars stays in 0..lineInBufsize
\* and outputNumChars in 0..lineOutBufSize, both get indices stay inside
\* their buffers, Spin takes bytes from the interface only when the input
\* buffer is at most half full, and a Read on an empty input buffer returns
\* 0 and changes nothing.
C39_RingBufferBounds ==
    /\ [](/\ lineIn.inputNumChars \in 0 .. lineInBufsize
          /\ line.outputNumChars \in 0 .. lineOutBufSize
          /\ lineIn.inputGetIndex \in 0 .. lineInBufsize - 1
          /\ line.outputGetIndex \in 0 .. lineOutBufSize - 1)
    /\ [][ /\ usbIn' # usbIn /\ Len(usbIn') <= Len(usbIn)
              => /\ lineInHist'.op = "Spin"
                 /\ 2 * lineIn.inputNumChars <= lineInBufsize
                 /\ lineIn'.inputNumChars = lineIn.inputNumChars + lineInHist'.taken
           /\ (lineInHist'.ops # lineInHist.ops /\ lineInHist'.op = "Read"
               /\ lineIn.inputNumChars = 0)
              => /\ lineInHist'.result = 0
                 /\ UNCHANGED << lineIn, usbIn, line, usb, lineHist >> ]_vars

\* Spin has filled the input buffer to its end and left at the interface the
\* bytes that did not fit.
C39_Witness ==
    /\ lineInHist.op = "Spin"
    /\ lineInHist.taken >= 1
    /\ lineIn.inputNumChars = lineInBufsize
    /\ usbIn # << >>

====
